---- MODULE Spec2Model ----
(***************************************************************************)
(* Grounding engine of the desktop-automation repository:                  *)
(*   grounding/base_grounding.py      BaseGrounding, MultiStrategyGrounding *)
(*   grounding/template_grounding.py  TemplateGrounding, Adaptive...        *)
(*   grounding/ocr_grounding.py       OCRGrounding, FuzzyOCRGrounding       *)
(*   grounding/vision_grounding.py    VisionModelGrounding                  *)
(*   main.py                          _setup_grounding,                     *)
(*                                    locate_notepad_icon, process_posts    *)
(*   automation/notepad_controller.py write_post_to_file, launch_notepad    *)
(*   utils/retry.py                   retry_on_exception, retry_function    *)
(*   utils/validation.py              validate_coordinates                  *)
(*                                                                         *)
(* Reals are fixed-point integers: the float 1.0 is ONE, and every value   *)
(* used is a whole number of hundredths, so the products and ratios the    *)
(* code computes are exact.  A Python None coordinate is the empty tuple.  *)
(***************************************************************************)
EXTENDS Integers, Sequences, FiniteSets, TLC

\* ------------------------------------------------------------------------
\* Numbers
\* ------------------------------------------------------------------------
\* 1.0 in fixed point; divisible by 100 and by every sum of two text lengths 1..10
ONE == 100 * 2520

\* p hundredths as a fixed-point number (Pct(95) is 0.95)
Pct(p) == p * (ONE \div 100)

\* the product a * b of two fixed-point numbers, a being whole hundredths
Mul(a, b) == ((a \div (ONE \div 100)) * b) \div 100

\* Python None for an Optional[Tuple[int, int]]
None == << >>

\* self.last_successful_strategy = None
NoStrategy == "None"

\* floor division in place of truncation
TruncDiv_floor(a, b) == a \div b

\* int(a / b) for b > 0: Python's int() truncates toward zero
TruncDiv(a, b) == IF a >= 0 THEN a \div b ELSE 0 - ((0 - a) \div b)

\* ------------------------------------------------------------------------
\* Text: a str is a sequence of one-character strings
\* ------------------------------------------------------------------------
\* str.lower() on one character
LowerChar(c) ==
    CASE c = "S" -> "s"
      [] c = "A" -> "a"
      [] c = "V" -> "v"
      [] c = "E" -> "e"
      [] OTHER -> c

\* str.lower()
Lower(t) == [i \in 1..Len(t) |-> LowerChar(t[i])]

RECURSIVE StripLeft(_)
StripLeft(t) == IF t # << >> /\ Head(t) = " " THEN StripLeft(Tail(t)) ELSE t

RECURSIVE StripRight(_)
StripRight(t) ==
    IF t # << >> /\ t[Len(t)] = " " THEN StripRight(SubSeq(t, 1, Len(t) - 1)) ELSE t

\* str.strip()
Strip(t) == StripRight(StripLeft(t))

\* `s in t` for two strs
IsSubstring(s, t) ==
    \E i \in 1..(Len(t) - Len(s) + 1) : SubSeq(t, i, i + Len(s) - 1) = s

\* length of the common run of a and b that ends at a[i], b[j], inside a[alo..], b[blo..]
RECURSIVE CommonSuffixLen(_, _, _, _, _, _)
CommonSuffixLen(a, b, i, j, alo, blo) ==
    IF i < alo \/ j < blo THEN 0
    ELSE IF a[i] # b[j] THEN 0
    ELSE 1 + CommonSuffixLen(a, b, i - 1, j - 1, alo, blo)

\* difflib.SequenceMatcher.find_longest_match on a[alo..ahi], b[blo..bhi] (no junk):
\* the longest common block, the one starting earliest in a, then earliest in b
LongestMatch(a, b, alo, ahi, blo, bhi) ==
    LET blocks == { <<i, j>> \in (alo..ahi) \X (blo..bhi) : a[i] = b[j] }
        size(e) == CommonSuffixLen(a, b, e[1], e[2], alo, blo)
    IN  IF blocks = {}
        THEN [i |-> alo, j |-> blo, size |-> 0]
        ELSE LET best == CHOOSE e \in blocks :
                            \A f \in blocks :
                                \/ size(e) > size(f)
                                \/ /\ size(e) = size(f)
                                   /\ \/ e[1] - size(e) < f[1] - size(f)
                                      \/ /\ e[1] - size(e) = f[1] - size(f)
                                         /\ e[2] <= f[2]
             IN  [i |-> best[1] - size(best) + 1, j |-> best[2] - size(best) + 1,
                  size |-> size(best)]

\* difflib.SequenceMatcher.get_matching_blocks: total size of the matching blocks
RECURSIVE MatchingTotal(_, _, _, _, _, _)
MatchingTotal(a, b, alo, ahi, blo, bhi) ==
    IF alo > ahi \/ blo > bhi THEN 0
    ELSE LET m == LongestMatch(a, b, alo, ahi, blo, bhi)
         IN  IF m.size = 0 THEN 0
             ELSE m.size
                  + MatchingTotal(a, b, alo, m.i - 1, blo, m.j - 1)
                  + MatchingTotal(a, b, m.i + m.size, ahi, m.j + m.size, bhi)

\* difflib.SequenceMatcher(None, a, b).ratio() = 2.0 * matches / (len(a) + len(b))
Ratio(a, b) ==
    IF Len(a) + Len(b) = 0 THEN ONE
    ELSE (2 * MatchingTotal(a, b, 1, Len(a), 1, Len(b)) * ONE) \div (Len(a) + Len(b))

\* FuzzyOCRGrounding._fuzzy_match; difflib is FALSE when self.matcher is None
fuzzy_match(difflib, text1, text2) ==
    IF difflib
    THEN Ratio(Lower(text1), Lower(text2))
    ELSE LET t1 == Lower(text1)
             t2 == Lower(text2)
         IN  IF IsSubstring(t1, t2) \/ IsSubstring(t2, t1) THEN Pct(90) ELSE 0

\* ------------------------------------------------------------------------
\* Bounds of the engine model
\* ------------------------------------------------------------------------
\* longest registry add_strategy is allowed to build
MaxStrategies == 3

\* ------------------------------------------------------------------------
\* State
\* ------------------------------------------------------------------------
VARIABLES
    strategies,                 \* MultiStrategyGrounding.strategies (ordered registry)
    last_successful_strategy,   \* MultiStrategyGrounding.last_successful_strategy
    world,                      \* what each registered strategy object does when called now
    eCall,                      \* the engine's locate call that just returned, or NoCall
    sKind,                      \* class of the strategy object under study
    threshold,                  \* TemplateGrounding.threshold
    thresholds,                 \* AdaptiveTemplateGrounding.thresholds
    confidence_threshold,       \* OCRGrounding.confidence_threshold
    fuzzy_threshold,            \* FuzzyOCRGrounding.fuzzy_threshold
    matcher,                    \* FuzzyOCRGrounding.matcher is set (difflib imported)
    last_confidence,            \* <strategy>.last_confidence
    last_detections,            \* OCRGrounding.last_detections
    sWorld,                     \* what the strategy's detection primitive answers now
    sCall,                      \* the strategy's method call that just ended, or NoStrategyCall
    sLocated,                   \* locate has been called on the strategy object
    setup,                      \* DesktopAutomationWorkflow._setup_grounding: environment and outcome
    retry,                      \* one call through retry_on_exception / retry_function
    probe,                      \* one application of a function to arguments
    workflow                    \* one call of a DesktopAutomationWorkflow / NotepadController method

engineVars == << strategies, last_successful_strategy, world, eCall >>

strategyVars == << sKind, threshold, thresholds, confidence_threshold, fuzzy_threshold,
                   matcher, last_confidence, last_detections, sWorld, sCall, sLocated >>

utilVars == << setup, retry, probe, workflow >>

vars == << strategies, last_successful_strategy, world, eCall,
           sKind, threshold, thresholds, confidence_threshold, fuzzy_threshold,
           matcher, last_confidence, last_detections, sWorld, sCall, sLocated,
           setup, retry, probe, workflow >>

\* no setup, no retried call, no function application and no workflow call
\* under study
NoSetup == [status |-> "idle"]

NoRetry == [phase |-> "idle"]

NoProbe == [fn |-> "none"]

NoWorkflow == [op |-> "none"]

UtilIdle == setup = NoSetup /\ retry = NoRetry /\ probe = NoProbe /\ workflow = NoWorkflow

\* ------------------------------------------------------------------------
\* Strategy objects seen by the engine (any BaseGrounding subclass)
\* ------------------------------------------------------------------------
\* the strategy objects that exist
StrategyIds == {"s1", "s2", "s3"}

\* objects that are not instances of BaseGrounding
OtherObjects == {"not_a_strategy"}

\* isinstance(strategy, BaseGrounding)
IsBaseGrounding(s) == s \in StrategyIds

\* sizes of the screenshots handed to locate: (width, height)
ScreenSizes == { <<3, 2>>, <<1, 1>> }

\* what one strategy does when the engine calls it:
\*   kind "none"  : locate returns None
\*   kind "raise" : locate raises an Exception
\*   kind "point" : locate returns pt; get_confidence() then returns conf,
\*                  or (confOk = FALSE) raises / returns a non-number
NoneOutcome == [kind |-> "none", pt |-> None, conf |-> 0, confOk |-> TRUE]

RaiseOutcome == [kind |-> "raise", pt |-> None, conf |-> 0 - ONE, confOk |-> TRUE]

PointOutcome(p, c, ok) == [kind |-> "point", pt |-> p, conf |-> c, confOk |-> ok]

Outcomes ==
    { NoneOutcome, RaiseOutcome,
      PointOutcome(<<0, 0>>, Pct(30), TRUE),
      PointOutcome(<<0, 0>>, Pct(30), FALSE),
      PointOutcome(<<1, 0>>, Pct(90), TRUE),
      PointOutcome(<<3, 0>>, Pct(90), TRUE),
      PointOutcome(<<0 - 1, 2>>, Pct(90), TRUE) }

\* validate_result with the upper bounds off by one (x <= width, y <= height)
validate_result_inclusive(coords, screenshot) ==
    IF coords = None
    THEN FALSE
    ELSE /\ 0 <= coords[1] /\ coords[1] <= screenshot[1]
         /\ 0 <= coords[2] /\ coords[2] <= screenshot[2]

\* ------------------------------------------------------------------------
\* BaseGrounding.validate_result
\* ------------------------------------------------------------------------
validate_result(coords, screenshot) ==
    IF coords = None
    THEN FALSE
    ELSE LET x == coords[1]
             y == coords[2]
             width == screenshot[1]
             height == screenshot[2]
         IN  IF ~(0 <= x /\ x < width /\ 0 <= y /\ y < height)
             THEN FALSE
             ELSE TRUE

\* truth value of `coords` in `if coords and ...`: None is false, a pair is true
Truthy(coords) == coords # None

\* the engine loop without its exception handler's `continue`: a strategy
\* that raises ends the search with None
RECURSIVE LocateFrom_abort(_, _, _, _)
LocateFrom_abort(strats, screenshot, w, i) ==
    IF i > Len(strats)
    THEN [coords |-> None, accepted |-> 0, tried |-> Len(strats), status |-> "returned"]
    ELSE LET o == w[strats[i]]
         IN  IF o.kind = "raise"
             THEN [coords |-> None, accepted |-> 0, tried |-> i, status |-> "returned"]
             ELSE IF Truthy(o.pt) /\ validate_result(o.pt, screenshot) /\ o.confOk
                  THEN [coords |-> o.pt, accepted |-> i, tried |-> i,
                        status |-> "returned"]
                  ELSE LocateFrom_abort(strats, screenshot, w, i + 1)

\* the engine loop returning a validated point whether or not its confidence
\* can be read and formatted
RECURSIVE LocateFrom_anyConfidence(_, _, _, _)
LocateFrom_anyConfidence(strats, screenshot, w, i) ==
    IF i > Len(strats)
    THEN [coords |-> None, accepted |-> 0, tried |-> Len(strats), status |-> "returned"]
    ELSE LET o == w[strats[i]]
         IN  IF o.kind = "raise"
             THEN LocateFrom_anyConfidence(strats, screenshot, w, i + 1)
             ELSE IF Truthy(o.pt) /\ validate_result(o.pt, screenshot)
                  THEN [coords |-> o.pt, accepted |-> i, tried |-> i,
                        status |-> "returned"]
                  ELSE LocateFrom_anyConfidence(strats, screenshot, w, i + 1)

\* ------------------------------------------------------------------------
\* MultiStrategyGrounding.locate: the loop from strategy i on.
\*   coords   : the value returned (None after the loop)
\*   accepted : index of the strategy assigned to last_successful_strategy, 0 if none
\*   tried    : number of strategies whose locate was invoked
\*   status   : "returned", or "raised" if an exception left the method
\* An object that is no BaseGrounding has no name: the debug line ahead of
\* the try block raises AttributeError, which leaves the method.
\* ------------------------------------------------------------------------
RECURSIVE LocateFrom(_, _, _, _)
LocateFrom(strats, screenshot, w, i) ==
    IF i > Len(strats)
    THEN [coords |-> None, accepted |-> 0, tried |-> Len(strats), status |-> "returned"]
    ELSE IF ~IsBaseGrounding(strats[i])
    THEN [coords |-> None, accepted |-> 0, tried |-> i - 1, status |-> "raised"]
    ELSE LET o == w[strats[i]]
             coords == o.pt
         IN  IF o.kind = "raise"
             THEN LocateFrom(strats, screenshot, w, i + 1)
             ELSE IF Truthy(coords) /\ validate_result(coords, screenshot)
                  THEN IF o.confOk
                       THEN [coords |-> coords, accepted |-> i, tried |-> i,
                             status |-> "returned"]
                       ELSE LocateFrom(strats, screenshot, w, i + 1)
                  ELSE LocateFrom(strats, screenshot, w, i + 1)

\* the loop resuming behind the first strategy once some call has succeeded
EngineLocateResult_resumes(strats, screenshot, w) ==
    LocateFrom(strats, screenshot, w, IF last_successful_strategy = NoStrategy THEN 1 ELSE 2)

EngineLocateResult(strats, screenshot, w) == LocateFrom(strats, screenshot, w, 1)

\* the engine operation that just ended (none after construction or a change
\* of the world):
\*   op       : "locate" or "add_strategy"
\*   made     : op is "locate"
\*   status   : "returned", or "raised" if an exception left the method
\*   registry : for add_strategy, the list of strategies before the call
\*   candidate: for add_strategy, the object passed in
\*   repeated : this locate directly follows a locate with the same request
\*   previous : the point that preceding locate returned
\*   options  : names of the keyword options of the request (**kwargs)
\*   forwarded: the options each strategy tried was called with, in order
NoCall == [op |-> "none", made |-> FALSE, screenshot |-> <<0, 0>>, coords |-> None,
           accepted |-> 0, tried |-> 0, status |-> "returned", registry |-> << >>,
           candidate |-> "", repeated |-> FALSE, previous |-> None,
           options |-> {}, forwarded |-> << >>]

\* the class of each strategy object when requests carry options: s1 is a
\* TemplateGrounding, s2 an OCRGrounding, s3 a FuzzyOCRGrounding
ClassOf(s) ==
    CASE s = "s1" -> "TemplateGrounding"
      [] s = "s2" -> "OCRGrounding"
      [] OTHER -> "FuzzyOCRGrounding"

\* option names requests carry
OptionNames == { "threshold", "exact_match", "zoom" }

\* the call strategy.locate(screenshot, target, **options) binds its
\* arguments: TemplateGrounding.locate declares threshold, OCRGrounding.locate
\* declares case_sensitive and exact_match, the other classes take **kwargs
Accepts(class, options) ==
    CASE class = "TemplateGrounding" -> options \subseteq { "threshold" }
      [] class = "OCRGrounding" -> options \subseteq { "case_sensitive", "exact_match" }
      [] OTHER -> TRUE

\* every strategy called whatever the options are
Offered_ignoresOptions(w, options) == w

\* what each strategy does when called with the options: a call that cannot
\* bind its arguments raises TypeError
Offered(w, options) ==
    [s \in DOMAIN w |-> IF Accepts(ClassOf(s), options) THEN w[s] ELSE RaiseOutcome]

\* coords = strategy.locate(screenshot, target, **kwargs) for each strategy tried
ForwardedOptions(options, tried) == [i \in 1..tried |-> options]

\* ------------------------------------------------------------------------
\* Actions of the engine
\* ------------------------------------------------------------------------
\* MultiStrategyGrounding.__init__ with strategies=None
EngineConstructed ==
    /\ strategies = << >>
    /\ last_successful_strategy = NoStrategy
    /\ world \in [StrategyIds -> {NoneOutcome}]
    /\ eCall = NoCall

\* self.strategies.append(strategy) put at the front of the list instead
Appended_front(strats, s) == << s >> \o strats

\* self.strategies.append(strategy)
Appended(strats, s) == Append(strats, s)

\* MultiStrategyGrounding.add_strategy(strategy)
AddStrategy(s) ==
    /\ Len(strategies) < MaxStrategies
    /\ IF ~IsBaseGrounding(s)
       THEN /\ strategies' = strategies
            /\ eCall' = [NoCall EXCEPT !.op = "add_strategy", !.status = "raised",
                                       !.registry = strategies, !.candidate = s]
       ELSE /\ strategies' = Appended(strategies, s)
            /\ eCall' = [NoCall EXCEPT !.op = "add_strategy", !.registry = strategies,
                                       !.candidate = s]
    /\ UNCHANGED << last_successful_strategy, world >>
    /\ UNCHANGED << strategyVars, utilVars >>

\* the screen or a dependency changes: strategy s will answer o from now on
WorldChanges(s, o) ==
    /\ world[s] # o
    /\ world' = [world EXCEPT ![s] = o]
    /\ eCall' = NoCall
    /\ UNCHANGED << strategies, last_successful_strategy >>
    /\ UNCHANGED << strategyVars, utilVars >>

\* MultiStrategyGrounding.locate(screenshot, target, **options): what the call
\* does to the engine
LocateCall(screenshot, options) ==
    LET r == EngineLocateResult(strategies, screenshot, Offered(world, options))
        again == eCall.made /\ eCall.screenshot = screenshot /\ eCall.options = options
    IN  /\ eCall' = [op |-> "locate", made |-> TRUE, screenshot |-> screenshot,
                     coords |-> r.coords, accepted |-> r.accepted, tried |-> r.tried,
                     status |-> r.status, registry |-> << >>, candidate |-> "",
                     repeated |-> again,
                     previous |-> IF again THEN eCall.coords ELSE None,
                     options |-> options,
                     forwarded |-> ForwardedOptions(options, r.tried)]
        /\ last_successful_strategy' =
               IF r.accepted # 0 THEN strategies[r.accepted] ELSE last_successful_strategy
        /\ UNCHANGED << strategies, world >>

\* MultiStrategyGrounding.locate(screenshot, target, **options)
EngineLocateWith(screenshot, options) ==
    /\ LocateCall(screenshot, options)
    /\ UNCHANGED << strategyVars, utilVars >>

\* MultiStrategyGrounding.locate(screenshot, target)
EngineLocate(screenshot) == EngineLocateWith(screenshot, {})

EngineNext ==
    \/ \E s \in StrategyIds \cup OtherObjects : AddStrategy(s)
    \/ \E s \in StrategyIds, o \in Outcomes : WorldChanges(s, o)
    \/ \E screenshot \in ScreenSizes : EngineLocate(screenshot)

\* ------------------------------------------------------------------------
\* Configuration defaults
\* ------------------------------------------------------------------------
\* config.TEMPLATE_MATCH_THRESHOLD
TEMPLATE_MATCH_THRESHOLD == Pct(70)

\* config.OCR_CONFIDENCE_THRESHOLD
OCR_CONFIDENCE_THRESHOLD == Pct(60)

\* AdaptiveTemplateGrounding.__init__: initial threshold when no ladder is given
DefaultInitialThreshold == Pct(90)

\* AdaptiveTemplateGrounding.__init__: the default ladder
DefaultThresholds == << Pct(90), Pct(80), Pct(70), Pct(60), Pct(50) >>

\* FuzzyOCRGrounding.__init__: default fuzzy_threshold
DefaultFuzzyThreshold == Pct(80)

\* VisionModelGrounding.locate: the confidence assumed for a detection
VisionConfidence == Pct(90)

\* last_confidence of a strategy whose first locate found nothing
InitialConfidence_notFound == 0 * ONE

\* self.last_confidence = -1 in every strategy constructor
InitialConfidence == 0 - ONE

\* an optional argument: << >> is None, <<v>> is the value v
NoArg == << >>

\* `arg or default` on an optional number: None and 0 are both false
OrDefault(arg, default) == IF arg = NoArg \/ arg[1] = 0 THEN default ELSE arg[1]

\* ------------------------------------------------------------------------
\* TemplateGrounding / AdaptiveTemplateGrounding
\* ------------------------------------------------------------------------
\* TemplateGrounding.__init__: the stored threshold
TemplateInitThreshold(thresholdArg) == OrDefault(thresholdArg, TEMPLATE_MATCH_THRESHOLD)

\* AdaptiveTemplateGrounding.__init__: the stored threshold (ladder << >> is None or [])
AdaptiveInitThreshold(ladderArg) ==
    TemplateInitThreshold(
        << IF ladderArg # << >> THEN ladderArg[1] ELSE DefaultInitialThreshold >>)

\* AdaptiveTemplateGrounding.__init__: the stored ladder
AdaptiveInitThresholds(ladderArg) ==
    IF ladderArg # << >> THEN ladderArg ELSE DefaultThresholds

\* self.bot.find(template, matching=m): the template's best similarity on the
\* screen is answer.sim and it is found when that reaches m; or the call raises
MatcherFinds(answer, m) == answer.kind = "sim" /\ answer.sim >= m

\* locate placing the point half a size up-rounded into the element
TemplateLocate_roundsUp(selfThreshold, thresholdArg, answer, element) ==
    LET match_threshold == OrDefault(thresholdArg, selfThreshold)
    IN  IF answer.kind = "raise"
        THEN [coords |-> None, confidence |-> 0 - ONE, matching |-> match_threshold]
        ELSE IF ~MatcherFinds(answer, match_threshold)
        THEN [coords |-> None, confidence |-> 0, matching |-> match_threshold]
        ELSE [coords |-> << element.left + ((element.width + 1) \div 2),
                            element.top + ((element.height + 1) \div 2) >>,
              confidence |-> IF element.exposes THEN answer.sim ELSE match_threshold,
              matching |-> match_threshold]

\* TemplateGrounding.locate(screenshot, target, threshold=thresholdArg)
\*   matching : the threshold handed to the matcher
TemplateLocate(selfThreshold, thresholdArg, answer, element) ==
    LET match_threshold == OrDefault(thresholdArg, selfThreshold)
    IN  IF answer.kind = "raise"
        THEN [coords |-> None, confidence |-> 0 - ONE, matching |-> match_threshold]
        ELSE IF ~MatcherFinds(answer, match_threshold)
        THEN [coords |-> None, confidence |-> 0, matching |-> match_threshold]
        ELSE [coords |-> << element.left + (element.width \div 2),
                            element.top + (element.height \div 2) >>,
              confidence |-> IF element.exposes THEN answer.sim ELSE match_threshold,
              matching |-> match_threshold]

\* TemplateGrounding.update_threshold(value): the range test
ThresholdInRange(value) == 0 <= value /\ value <= ONE

\* the ladder loop returning after its first rung whether or not it matched
AdaptiveFrom_firstRungOnly(selfThreshold, ladder, answers, element, i, conf, matchings) ==
    IF i > Len(ladder)
    THEN [coords |-> None, confidence |-> conf, matchings |-> matchings, rung |-> 0]
    ELSE LET r == TemplateLocate(selfThreshold, << ladder[i] >>, answers[i], element)
         IN  [coords |-> r.coords, confidence |-> r.confidence,
              matchings |-> Append(matchings, r.matching),
              rung |-> IF Truthy(r.coords) THEN i ELSE 0]

\* AdaptiveTemplateGrounding.locate: the loop from rung i on.
\*   confidence : last_confidence when locate returns (conf is its value so far)
\*   matchings  : the thresholds handed to the matcher, in call order
RECURSIVE AdaptiveFrom(_, _, _, _, _, _, _)
AdaptiveFrom(selfThreshold, ladder, answers, element, i, conf, matchings) ==
    IF i > Len(ladder)
    THEN [coords |-> None, confidence |-> conf, matchings |-> matchings, rung |-> 0]
    ELSE LET r == TemplateLocate(selfThreshold, << ladder[i] >>, answers[i], element)
         IN  IF Truthy(r.coords)
             THEN [coords |-> r.coords, confidence |-> r.confidence,
                   matchings |-> Append(matchings, r.matching), rung |-> i]
             ELSE AdaptiveFrom(selfThreshold, ladder, answers, element, i + 1,
                               r.confidence, Append(matchings, r.matching))

AdaptiveLocate(selfThreshold, ladder, answers, element, conf) ==
    AdaptiveFrom(selfThreshold, ladder, answers, element, 1, conf, << >>)

\* ------------------------------------------------------------------------
\* OCRGrounding / FuzzyOCRGrounding
\* ------------------------------------------------------------------------
RECURSIVE SumSeq(_)
SumSeq(q) == IF q = << >> THEN 0 ELSE Head(q) + SumSeq(Tail(q))

\* centre of a bounding polygon: (int(sum(x) / len(x)), int(sum(y) / len(y)))
Centroid(bbox) ==
    << TruncDiv(SumSeq([k \in 1..Len(bbox) |-> bbox[k][1]]), Len(bbox)),
       TruncDiv(SumSeq([k \in 1..Len(bbox) |-> bbox[k][2]]), Len(bbox)) >>

\* OCRGrounding.__init__ / FuzzyOCRGrounding.__init__: the stored confidence_threshold
OCRInitThreshold(thresholdArg) == OrDefault(thresholdArg, OCR_CONFIDENCE_THRESHOLD)

\* the match test lower-casing both texts even when case_sensitive is requested
OCRIsMatch_alwaysLower(text, target, case_sensitive, exact_match) ==
    LET detected_text == Lower(Strip(text))
        search_text == Lower(Strip(target))
    IN  IF exact_match
        THEN detected_text = search_text
        ELSE IsSubstring(search_text, detected_text)

\* OCRGrounding.locate: is this detection a match for target
OCRIsMatch(text, target, case_sensitive, exact_match) ==
    LET detected_text == IF case_sensitive THEN Strip(text) ELSE Lower(Strip(text))
        search_text == IF case_sensitive THEN Strip(target) ELSE Lower(Strip(target))
    IN  IF exact_match
        THEN detected_text = search_text
        ELSE IsSubstring(search_text, detected_text)

\* the loop replacing the best match on an equal confidence too
RECURSIVE OCRScan_lastOnTie(_, _, _, _, _, _, _, _, _)
OCRScan_lastOnTie(results, target, case_sensitive, exact_match, minConfidence, i, best_match, best_confidence, best_index) ==
    IF i > Len(results)
    THEN [best_match |-> best_match, best_confidence |-> best_confidence,
          best_index |-> best_index]
    ELSE LET d == results[i]
         IN  IF d.confidence >= minConfidence
                /\ OCRIsMatch(d.text, target, case_sensitive, exact_match)
                /\ d.confidence >= best_confidence
             THEN OCRScan_lastOnTie(results, target, case_sensitive, exact_match,
                                    minConfidence, i + 1, Centroid(d.bbox),
                                    d.confidence, i)
             ELSE OCRScan_lastOnTie(results, target, case_sensitive, exact_match,
                                    minConfidence, i + 1, best_match, best_confidence,
                                    best_index)

\* OCRGrounding.locate: the loop over results from detection i on
RECURSIVE OCRScan(_, _, _, _, _, _, _, _, _)
OCRScan(results, target, case_sensitive, exact_match, minConfidence, i, best_match, best_confidence, best_index) ==
    IF i > Len(results)
    THEN [best_match |-> best_match, best_confidence |-> best_confidence,
          best_index |-> best_index]
    ELSE LET d == results[i]
         IN  IF d.confidence < minConfidence
             THEN OCRScan(results, target, case_sensitive, exact_match, minConfidence,
                          i + 1, best_match, best_confidence, best_index)
             ELSE IF OCRIsMatch(d.text, target, case_sensitive, exact_match)
                     /\ d.confidence > best_confidence
             THEN OCRScan(results, target, case_sensitive, exact_match, minConfidence,
                          i + 1, Centroid(d.bbox), d.confidence, i)
             ELSE OCRScan(results, target, case_sensitive, exact_match, minConfidence,
                          i + 1, best_match, best_confidence, best_index)

\* locate leaving last_confidence as it was when nothing matches
OCRLocate_keepsConfidence(answer, target, case_sensitive, exact_match, minConfidence, conf, detections) ==
    IF answer.kind = "raise"
    THEN [status |-> "returned", coords |-> None, confidence |-> 0 - ONE,
          selected |-> 0, last_detections |-> detections]
    ELSE LET b == OCRScan(answer.results, target, case_sensitive, exact_match,
                          minConfidence, 1, None, 0, 0)
         IN  IF Truthy(b.best_match)
             THEN [status |-> "returned", coords |-> b.best_match,
                   confidence |-> b.best_confidence, selected |-> b.best_index,
                   last_detections |-> answer.results]
             ELSE [status |-> "returned", coords |-> None, confidence |-> conf,
                   selected |-> 0, last_detections |-> answer.results]

\* OCRGrounding.locate(screenshot, target, case_sensitive, exact_match);
\* answer is what self.reader.readtext does: raises, or returns answer.results.
\*   status     : "returned", or "raised" if an exception left locate
\*   confidence : last_confidence afterwards (conf is its value before)
\*   selected   : position in results of the detection returned, 0 if none
OCRLocate(answer, target, case_sensitive, exact_match, minConfidence, conf, detections) ==
    IF answer.kind = "raise"
    THEN [status |-> "returned", coords |-> None, confidence |-> 0 - ONE,
          selected |-> 0, last_detections |-> detections]
    ELSE LET b == OCRScan(answer.results, target, case_sensitive, exact_match,
                          minConfidence, 1, None, 0, 0)
         IN  IF Truthy(b.best_match)
             THEN [status |-> "returned", coords |-> b.best_match,
                   confidence |-> b.best_confidence, selected |-> b.best_index,
                   last_detections |-> answer.results]
             ELSE [status |-> "returned", coords |-> None, confidence |-> 0,
                   selected |-> 0, last_detections |-> answer.results]

\* OCRGrounding.get_all_text(screenshot): one (text, confidence, (cx, cy)) per
\* detection the reader returned
GetAllText(results) ==
    [i \in 1..Len(results) |->
        [text |-> results[i].text, confidence |-> results[i].confidence,
         centre |-> Centroid(results[i].bbox)]]

\* list.sort(key=confidence, reverse=True): q with m put behind every entry
\* whose confidence is not lower (the sort is stable)
RECURSIVE InsertByConfidence(_, _)
InsertByConfidence(q, m) ==
    IF q = << >>
    THEN << m >>
    ELSE IF Head(q).confidence >= m.confidence
    THEN << Head(q) >> \o InsertByConfidence(Tail(q), m)
    ELSE << m >> \o q

RECURSIVE SortByConfidence(_)
SortByConfidence(q) ==
    IF q = << >>
    THEN << >>
    ELSE InsertByConfidence(SortByConfidence(SubSeq(q, 1, Len(q) - 1)), q[Len(q)])

\* matches[:n]
SliceTo(q, n) ==
    IF n >= 0
    THEN SubSeq(q, 1, IF n < Len(q) THEN n ELSE Len(q))
    ELSE SubSeq(q, 1, IF Len(q) + n > 0 THEN Len(q) + n ELSE 0)

\* OCRGrounding.find_multiple(screenshot, target, max_results): the (cx, cy,
\* confidence) entries returned; max_results << >> is None
FindMultiple(results, target, max_results, minConfidence) ==
    LET Matches(d) == /\ IsSubstring(Lower(target), Lower(Strip(d.text)))
                      /\ d.confidence >= minConfidence
        matches == SortByConfidence(
                       [i \in 1..Len(SelectSeq(results, Matches)) |->
                           [centre |-> Centroid(SelectSeq(results, Matches)[i].bbox),
                            confidence |-> SelectSeq(results, Matches)[i].confidence]])
    IN  IF max_results # << >> /\ max_results[1] # 0
        THEN SliceTo(matches, max_results[1])
        ELSE matches

\* the fuzzy loop ranking by combined score without the similarity gate
RECURSIVE FuzzyScan_noGate(_, _, _, _, _, _, _, _, _)
FuzzyScan_noGate(results, target, minConfidence, fuzzy, difflib, i, best_match, best_score, best_index) ==
    IF i > Len(results)
    THEN [best_match |-> best_match, best_score |-> best_score, best_index |-> best_index]
    ELSE LET d == results[i]
             combined_score ==
                 Mul(d.confidence, fuzzy_match(difflib, Strip(d.text), Strip(target)))
         IN  IF d.confidence >= minConfidence /\ combined_score > best_score
             THEN FuzzyScan_noGate(results, target, minConfidence, fuzzy, difflib, i + 1,
                                   Centroid(d.bbox), combined_score, i)
             ELSE FuzzyScan_noGate(results, target, minConfidence, fuzzy, difflib, i + 1,
                                   best_match, best_score, best_index)

\* FuzzyOCRGrounding.locate: the loop over results from detection i on
RECURSIVE FuzzyScan(_, _, _, _, _, _, _, _, _)
FuzzyScan(results, target, minConfidence, fuzzy, difflib, i, best_match, best_score, best_index) ==
    IF i > Len(results)
    THEN [best_match |-> best_match, best_score |-> best_score, best_index |-> best_index]
    ELSE LET d == results[i]
             similarity == fuzzy_match(difflib, Strip(d.text), Strip(target))
             combined_score == Mul(d.confidence, similarity)
         IN  IF d.confidence < minConfidence
             THEN FuzzyScan(results, target, minConfidence, fuzzy, difflib, i + 1,
                            best_match, best_score, best_index)
             ELSE IF similarity >= fuzzy /\ combined_score > best_score
             THEN FuzzyScan(results, target, minConfidence, fuzzy, difflib, i + 1,
                            Centroid(d.bbox), combined_score, i)
             ELSE FuzzyScan(results, target, minConfidence, fuzzy, difflib, i + 1,
                            best_match, best_score, best_index)

\* FuzzyOCRGrounding.locate(screenshot, target): no exception handler around readtext
FuzzyLocate(answer, target, minConfidence, fuzzy, difflib, conf, detections) ==
    IF answer.kind = "raise"
    THEN [status |-> "raised", coords |-> None, confidence |-> conf,
          selected |-> 0, last_detections |-> detections]
    ELSE LET b == FuzzyScan(answer.results, target, minConfidence, fuzzy, difflib,
                            1, None, 0, 0)
         IN  [status |-> "returned", coords |-> b.best_match,
              confidence |-> IF Truthy(b.best_match) THEN b.best_score ELSE 0,
              selected |-> b.best_index, last_detections |-> detections]

\* ------------------------------------------------------------------------
\* VisionModelGrounding
\* ------------------------------------------------------------------------
\* VisionModelGrounding.locate; answer is what the model pipeline does:
\*   "raise"  : processor / model raises
\*   "format" : the parsed answer lacks the task key
\*   "empty"  : no bounding boxes
\*   "boxes"  : the first box is answer.bbox = [x_min, y_min, x_max, y_max]
VisionLocate(answer) ==
    IF answer.kind = "raise"
    THEN [coords |-> None, confidence |-> 0 - ONE]
    ELSE IF answer.kind = "boxes"
    THEN [coords |-> << TruncDiv(answer.bbox[1] + answer.bbox[3], 2),
                        TruncDiv(answer.bbox[2] + answer.bbox[4], 2) >>,
          confidence |-> VisionConfidence]
    ELSE [coords |-> None, confidence |-> 0]

\* ------------------------------------------------------------------------
\* Inputs of the strategy model
\* ------------------------------------------------------------------------
\* most detections the text detector returns for one screenshot
MaxDetections == 2

\* threshold arguments given to TemplateGrounding(...) and to locate(threshold=...)
TemplateThresholdArgs == { NoArg, <<0>>, << Pct(90) >>, << 0 - Pct(50) >>, << Pct(150) >> }

\* ladders given to AdaptiveTemplateGrounding(thresholds=...); << >> is None or []
LadderArgs == { << >>, << Pct(90), Pct(80), Pct(70) >>, << Pct(90), 0 >> }

\* confidence_threshold arguments given to OCRGrounding / FuzzyOCRGrounding
OCRThresholdArgs == { NoArg, <<0>>, << Pct(97) >> }

\* fuzzy_threshold arguments given to FuzzyOCRGrounding
FuzzyThresholdArgs == { DefaultFuzzyThreshold, Pct(70), 0 }

\* max_results arguments given to find_multiple
MaxResultsArgs == { NoArg, <<0>>, <<1>> }

\* values given to update_threshold
UpdateThresholdArgs == { 0, Pct(150) }

\* answers of the template matcher at one call of bot.find
MatcherAnswers ==
    { [kind |-> "raise", sim |-> 0] }
        \cup { [kind |-> "sim", sim |-> v] : v \in { 0, Pct(75), ONE } }

\* the element bot.get_last_element() returns; exposes: it has a score attribute
Elements ==
    { [left |-> 1, top |-> 1, width |-> 3, height |-> 3, exposes |-> TRUE],
      [left |-> 0, top |-> 0, width |-> 1, height |-> 1, exposes |-> FALSE] }

Square(x, y) == << <<x, y>>, <<x + 2, y>>, <<x + 2, y + 2>>, <<x, y + 2>> >>

\* detections (bbox, text, confidence) the text detector can report
Detections ==
    { [bbox |-> Square(0, 0), text |-> <<"S", "a", "v", "e">>, confidence |-> Pct(95)],
      [bbox |-> Square(4, 0), text |-> <<"S", "4", "v", "e">>, confidence |-> Pct(99)],
      [bbox |-> << <<8, 0>>, <<10, 0>>, <<9, 3>> >>,
       text |-> <<" ", "S", "A", "V", "E", " ">>, confidence |-> Pct(95)] }

\* target texts asked for
Targets == { <<"S", "a", "v", "e">>, <<"4">> }

\* what the vision model pipeline does
VisionAnswers ==
    { [kind |-> "raise", bbox |-> << >>], [kind |-> "format", bbox |-> << >>],
      [kind |-> "empty", bbox |-> << >>],
      [kind |-> "boxes", bbox |-> <<0, 0, 3, 3>>],
      [kind |-> "boxes", bbox |-> <<0 - 5, 0, 0, 4>>] }

\* ------------------------------------------------------------------------
\* Actions on one strategy object
\* ------------------------------------------------------------------------
\* the class of a confidence value: error (-1), not found (0) or found ((0, 1])
ConfidenceClass(c) ==
    IF c = 0 - ONE THEN "error"
    ELSE IF c = 0 THEN "not found"
    ELSE IF 0 < c /\ c <= ONE THEN "found"
    ELSE "outside"

\* the method call on the strategy object that just ended (none after
\* construction or a change of the screen):
\*   op        : "locate", "update_threshold", "get_all_text" or "find_multiple"
\*   made      : op is "locate"
\*   status    : "returned", or "raised" if an exception left the method
\*   args      : the call's optional arguments
\*   matchings : the thresholds handed to the matcher, in call order
\*   rung      : ladder rung (1 for a plain template search) that matched, 0 if none
\*   selected  : position in the detector output of the detection returned, 0 if none
\*   before    : class of last_confidence before the call (for
\*               update_threshold: the threshold before the call)
\*   repeated  : this locate directly follows a locate with the same request
\*   previous  : the point that preceding locate returned
\*   listed    : the list get_all_text or find_multiple returned
NoStrategyCall ==
    [op |-> "none", made |-> FALSE, status |-> "returned", coords |-> None,
     args |-> << >>, matchings |-> << >>, rung |-> 0, target |-> << >>, selected |-> 0,
     before |-> "", repeated |-> FALSE, previous |-> None, listed |-> << >>]

\* the record of a locate call that just ended
LocateRecord(status, coords, args, matchings, rung, target, selected) ==
    LET again == sCall.made /\ sCall.args = args /\ sCall.target = target
    IN  [op |-> "locate", made |-> TRUE, status |-> status, coords |-> coords,
         args |-> args, matchings |-> matchings, rung |-> rung, target |-> target,
         selected |-> selected, before |-> ConfidenceClass(last_confidence),
         repeated |-> again,
         previous |-> IF again THEN sCall.coords ELSE None, listed |-> << >>]

\* nothing on the screen matches the template
BlankScreen(n) ==
    [answers |-> [i \in 1..n |-> [kind |-> "sim", sim |-> 0]],
     element |-> CHOOSE e \in Elements : e.exposes]

\* TemplateGrounding(threshold=thresholdArg)
TemplateConstructed(thresholdArg) ==
    /\ sKind = "Template"
    /\ threshold = TemplateInitThreshold(thresholdArg)
    /\ thresholds = << >>
    /\ confidence_threshold = 0 /\ fuzzy_threshold = 0 /\ matcher = FALSE
    /\ last_confidence = InitialConfidence
    /\ last_detections = << >>
    /\ sLocated = FALSE
    /\ sWorld = BlankScreen(1)
    /\ sCall = NoStrategyCall

\* AdaptiveTemplateGrounding(thresholds=ladderArg)
AdaptiveConstructed(ladderArg) ==
    /\ sKind = "AdaptiveTemplate"
    /\ threshold = AdaptiveInitThreshold(ladderArg)
    /\ thresholds = AdaptiveInitThresholds(ladderArg)
    /\ confidence_threshold = 0 /\ fuzzy_threshold = 0 /\ matcher = FALSE
    /\ last_confidence = InitialConfidence
    /\ last_detections = << >>
    /\ sLocated = FALSE
    /\ sWorld = BlankScreen(Len(AdaptiveInitThresholds(ladderArg)))
    /\ sCall = NoStrategyCall

\* OCRGrounding(confidence_threshold=thresholdArg)
OCRConstructed(thresholdArg) ==
    /\ sKind = "OCR"
    /\ threshold = 0 /\ thresholds = << >>
    /\ confidence_threshold = OCRInitThreshold(thresholdArg)
    /\ fuzzy_threshold = 0 /\ matcher = FALSE
    /\ last_confidence = InitialConfidence
    /\ last_detections = << >>
    /\ sLocated = FALSE
    /\ sWorld = [kind |-> "results", results |-> << >>]
    /\ sCall = NoStrategyCall

\* FuzzyOCRGrounding(confidence_threshold=thresholdArg, fuzzy_threshold=fuzzyArg)
FuzzyConstructed(thresholdArg, fuzzyArg, difflib) ==
    /\ sKind = "FuzzyOCR"
    /\ threshold = 0 /\ thresholds = << >>
    /\ confidence_threshold = OCRInitThreshold(thresholdArg)
    /\ fuzzy_threshold = fuzzyArg
    /\ matcher = difflib
    /\ last_confidence = InitialConfidence
    /\ last_detections = << >>
    /\ sLocated = FALSE
    /\ sWorld = [kind |-> "results", results |-> << >>]
    /\ sCall = NoStrategyCall

\* VisionModelGrounding()
VisionConstructed ==
    /\ sKind = "Vision"
    /\ threshold = 0 /\ thresholds = << >>
    /\ confidence_threshold = 0 /\ fuzzy_threshold = 0 /\ matcher = FALSE
    /\ last_confidence = InitialConfidence
    /\ last_detections = << >>
    /\ sLocated = FALSE
    /\ sWorld = [kind |-> "empty", bbox |-> << >>]
    /\ sCall = NoStrategyCall

StrategyConstructed ==
    \/ \E a \in TemplateThresholdArgs : TemplateConstructed(a)
    \/ \E l \in LadderArgs : AdaptiveConstructed(l)
    \/ \E a \in OCRThresholdArgs : OCRConstructed(a)
    \/ \E a \in OCRThresholdArgs, f \in FuzzyThresholdArgs, d \in BOOLEAN :
          FuzzyConstructed(a, f, d)
    \/ VisionConstructed

strategyConfig == << sKind, threshold, thresholds, confidence_threshold,
                     fuzzy_threshold, matcher >>

\* the screen changes: the matcher's i-th call from now on answers m
MatcherChanges(i, m) ==
    /\ sKind \in {"Template", "AdaptiveTemplate"}
    /\ i \in 1..Len(sWorld.answers)
    /\ sWorld.answers[i] # m
    /\ sWorld' = [sWorld EXCEPT !.answers[i] = m]
    /\ sCall' = NoStrategyCall
    /\ UNCHANGED << strategyConfig, last_confidence, last_detections, sLocated >>
    /\ UNCHANGED << engineVars, utilVars >>

\* the matched element is elsewhere, or of another library version
ElementChanges(e) ==
    /\ sKind \in {"Template", "AdaptiveTemplate"}
    /\ sWorld.element # e
    /\ sWorld' = [sWorld EXCEPT !.element = e]
    /\ sCall' = NoStrategyCall
    /\ UNCHANGED << strategyConfig, last_confidence, last_detections, sLocated >>
    /\ UNCHANGED << engineVars, utilVars >>

\* one more text region appears on the screen (a region is reported once)
ReaderDetects(d) ==
    /\ sKind \in {"OCR", "FuzzyOCR"}
    /\ Len(sWorld.results) < MaxDetections
    /\ \A i \in DOMAIN sWorld.results : sWorld.results[i] # d
    /\ sWorld' = [sWorld EXCEPT !.results = Append(@, d)]
    /\ sCall' = NoStrategyCall
    /\ UNCHANGED << strategyConfig, last_confidence, last_detections, sLocated >>
    /\ UNCHANGED << engineVars, utilVars >>

\* the last text region disappears from the screen
ReaderForgets ==
    /\ sKind \in {"OCR", "FuzzyOCR"}
    /\ sWorld.results # << >>
    /\ sWorld' = [sWorld EXCEPT !.results = SubSeq(@, 1, Len(@) - 1)]
    /\ sCall' = NoStrategyCall
    /\ UNCHANGED << strategyConfig, last_confidence, last_detections, sLocated >>
    /\ UNCHANGED << engineVars, utilVars >>

\* the text detector starts (k = "raise") or stops (k = "results") raising
ReaderSwitches(k) ==
    /\ sKind \in {"OCR", "FuzzyOCR"}
    /\ sWorld.kind # k
    /\ sWorld' = [sWorld EXCEPT !.kind = k]
    /\ sCall' = NoStrategyCall
    /\ UNCHANGED << strategyConfig, last_confidence, last_detections, sLocated >>
    /\ UNCHANGED << engineVars, utilVars >>

\* the vision model pipeline answers v from now on
VisionChanges(v) ==
    /\ sKind = "Vision"
    /\ sWorld # v
    /\ sWorld' = v
    /\ sCall' = NoStrategyCall
    /\ UNCHANGED << strategyConfig, last_confidence, last_detections, sLocated >>
    /\ UNCHANGED << engineVars, utilVars >>

\* TemplateGrounding.update_threshold(value), inherited by the adaptive class
UpdateThreshold(value) ==
    /\ sKind \in {"Template", "AdaptiveTemplate"}
    /\ IF ~ThresholdInRange(value)
       THEN /\ threshold' = threshold
            /\ sCall' = [NoStrategyCall EXCEPT !.op = "update_threshold",
                                               !.status = "raised", !.args = << value >>,
                                               !.before = threshold]
       ELSE /\ threshold' = value
            /\ sCall' = [NoStrategyCall EXCEPT !.op = "update_threshold",
                                               !.args = << value >>,
                                               !.before = threshold]
    /\ UNCHANGED << sKind, thresholds, confidence_threshold, fuzzy_threshold, matcher >>
    /\ UNCHANGED << last_confidence, last_detections, sWorld, sLocated >>
    /\ UNCHANGED << engineVars, utilVars >>

\* get_all_text keeping the detector output as the stored last detections
GetAllTextCall_storesDetections ==
    /\ sKind \in {"OCR", "FuzzyOCR"}
    /\ IF sWorld.kind = "raise"
       THEN /\ sCall' = [NoStrategyCall EXCEPT !.op = "get_all_text", !.status = "raised"]
            /\ last_detections' = last_detections
       ELSE /\ sCall' = [NoStrategyCall EXCEPT !.op = "get_all_text",
                                                !.listed = GetAllText(sWorld.results)]
            /\ last_detections' = sWorld.results
    /\ UNCHANGED << strategyConfig, last_confidence, sWorld, sLocated >>
    /\ UNCHANGED << engineVars, utilVars >>

\* OCRGrounding.get_all_text(screenshot), inherited by the fuzzy class; no
\* exception handler around readtext
GetAllTextCall ==
    /\ sKind \in {"OCR", "FuzzyOCR"}
    /\ IF sWorld.kind = "raise"
       THEN sCall' = [NoStrategyCall EXCEPT !.op = "get_all_text", !.status = "raised"]
       ELSE sCall' = [NoStrategyCall EXCEPT !.op = "get_all_text",
                                           !.listed = GetAllText(sWorld.results)]
    /\ UNCHANGED << strategyConfig, last_confidence, last_detections, sWorld, sLocated >>
    /\ UNCHANGED << engineVars, utilVars >>

\* OCRGrounding.find_multiple(screenshot, target, max_results), inherited by
\* the fuzzy class; no exception handler around readtext
FindMultipleCall(target, max_results) ==
    /\ sKind \in {"OCR", "FuzzyOCR"}
    /\ IF sWorld.kind = "raise"
       THEN sCall' = [NoStrategyCall EXCEPT !.op = "find_multiple", !.status = "raised",
                                           !.target = target, !.args = max_results]
       ELSE sCall' = [NoStrategyCall EXCEPT
                         !.op = "find_multiple", !.target = target, !.args = max_results,
                         !.listed = FindMultiple(sWorld.results, target, max_results,
                                                 confidence_threshold)]
    /\ UNCHANGED << strategyConfig, last_confidence, last_detections, sWorld, sLocated >>
    /\ UNCHANGED << engineVars, utilVars >>

\* TemplateGrounding.locate(screenshot, target, threshold=thresholdArg)
TemplateLocateCall(thresholdArg) ==
    LET r == TemplateLocate(threshold, thresholdArg, sWorld.answers[1], sWorld.element)
    IN  /\ sKind = "Template"
        /\ last_confidence' = r.confidence
        /\ sCall' = LocateRecord("returned", r.coords, thresholdArg, << r.matching >>,
                                 IF Truthy(r.coords) THEN 1 ELSE 0, << >>, 0)
        /\ sLocated' = TRUE
        /\ UNCHANGED << strategyConfig, last_detections, sWorld >>
        /\ UNCHANGED << engineVars, utilVars >>

\* AdaptiveTemplateGrounding.locate(screenshot, target)
AdaptiveLocateCall ==
    LET r == AdaptiveLocate(threshold, thresholds, sWorld.answers, sWorld.element,
                            last_confidence)
    IN  /\ sKind = "AdaptiveTemplate"
        /\ last_confidence' = r.confidence
        /\ sCall' = LocateRecord("returned", r.coords, << >>, r.matchings, r.rung,
                                 << >>, 0)
        /\ sLocated' = TRUE
        /\ UNCHANGED << strategyConfig, last_detections, sWorld >>
        /\ UNCHANGED << engineVars, utilVars >>

\* OCRGrounding.locate(screenshot, target, case_sensitive, exact_match)
OCRLocateCall(target, case_sensitive, exact_match) ==
    LET r == OCRLocate(sWorld, target, case_sensitive, exact_match,
                       confidence_threshold, last_confidence, last_detections)
    IN  /\ sKind = "OCR"
        /\ last_confidence' = r.confidence
        /\ last_detections' = r.last_detections
        /\ sCall' = LocateRecord(r.status, r.coords, << case_sensitive, exact_match >>,
                                 << >>, 0, target, r.selected)
        /\ sLocated' = TRUE
        /\ UNCHANGED << strategyConfig, sWorld >>
        /\ UNCHANGED << engineVars, utilVars >>

\* FuzzyOCRGrounding.locate(screenshot, target)
FuzzyLocateCall(target) ==
    LET r == FuzzyLocate(sWorld, target, confidence_threshold, fuzzy_threshold,
                         matcher, last_confidence, last_detections)
    IN  /\ sKind = "FuzzyOCR"
        /\ last_confidence' = r.confidence
        /\ last_detections' = r.last_detections
        /\ sCall' = LocateRecord(r.status, r.coords, << >>, << >>, 0, target,
                                 r.selected)
        /\ sLocated' = TRUE
        /\ UNCHANGED << strategyConfig, sWorld >>
        /\ UNCHANGED << engineVars, utilVars >>

\* VisionModelGrounding.locate(screenshot, target)
VisionLocateCall ==
    LET r == VisionLocate(sWorld)
    IN  /\ sKind = "Vision"
        /\ last_confidence' = r.confidence
        /\ sCall' = LocateRecord("returned", r.coords, << >>, << >>, 0, << >>, 0)
        /\ sLocated' = TRUE
        /\ UNCHANGED << strategyConfig, last_detections, sWorld >>
        /\ UNCHANGED << engineVars, utilVars >>

StrategyNext ==
    \/ \E i \in 1..Len(DefaultThresholds), m \in MatcherAnswers : MatcherChanges(i, m)
    \/ \E e \in Elements : ElementChanges(e)
    \/ \E d \in Detections : ReaderDetects(d)
    \/ ReaderForgets
    \/ \E k \in {"raise", "results"} : ReaderSwitches(k)
    \/ \E v \in VisionAnswers : VisionChanges(v)
    \/ \E v \in UpdateThresholdArgs : UpdateThreshold(v)
    \/ GetAllTextCall
    \/ \E t \in Targets, n \in MaxResultsArgs : FindMultipleCall(t, n)
    \/ \E a \in TemplateThresholdArgs : TemplateLocateCall(a)
    \/ AdaptiveLocateCall
    \/ \E t \in Targets, cs \in BOOLEAN, ex \in BOOLEAN : OCRLocateCall(t, cs, ex)
    \/ \E t \in Targets : FuzzyLocateCall(t)
    \/ VisionLocateCall

\* ------------------------------------------------------------------------
\* Specifications
\* ------------------------------------------------------------------------
\* no strategy object is under study
StrategyIdle ==
    /\ sKind = "none"
    /\ threshold = 0 /\ thresholds = << >>
    /\ confidence_threshold = 0 /\ fuzzy_threshold = 0 /\ matcher = FALSE
    /\ last_confidence = 0 - ONE
    /\ last_detections = << >>
    /\ sLocated = FALSE
    /\ sWorld = << >>
    /\ sCall = NoStrategyCall

\* an engine with no strategy registered and never called
EngineIdle ==
    /\ strategies = << >>
    /\ last_successful_strategy = NoStrategy
    /\ world = [s \in StrategyIds |-> NoneOutcome]
    /\ eCall = NoCall

\* the multi-strategy engine, driven with arbitrary strategy objects
EngineInit == EngineConstructed /\ StrategyIdle /\ UtilIdle

SpecEngine == EngineInit /\ [][EngineNext]_vars

\* one strategy object of any class, called repeatedly
StrategyInit == StrategyConstructed /\ EngineIdle /\ UtilIdle

SpecStrategy == StrategyInit /\ [][StrategyNext]_vars

\* either of the two: an engine, or one strategy object
GroundingInit == EngineInit \/ StrategyInit

GroundingNext ==
    \/ sKind = "none" /\ EngineNext
    \/ sKind # "none" /\ StrategyNext

SpecGrounding == GroundingInit /\ [][GroundingNext]_vars

\* ------------------------------------------------------------------------
\* Properties of MultiStrategyGrounding
\* ------------------------------------------------------------------------
\* 0 <= x < width and 0 <= y < height
InBounds(p, screenshot) ==
    /\ 0 <= p[1] /\ p[1] < screenshot[1]
    /\ 0 <= p[2] /\ p[2] < screenshot[2]

\* the strategy at position i returned a point that passes validation
ValidAt(strats, i, screenshot) ==
    /\ world[strats[i]].kind = "point"
    /\ InBounds(world[strats[i]].pt, screenshot)

\* ... and its get_confidence() could be reported
SucceedsAt(strats, i, screenshot) ==
    ValidAt(strats, i, screenshot) /\ world[strats[i]].confOk

\* position of the first strategy whose point passes validation, 0 if none
FirstValidated(strats, screenshot) ==
    IF \E i \in 1..Len(strats) : ValidAt(strats, i, screenshot)
    THEN CHOOSE i \in 1..Len(strats) :
             /\ ValidAt(strats, i, screenshot)
             /\ \A k \in 1..(i - 1) : ~ValidAt(strats, k, screenshot)
    ELSE 0

\* the registry with positions i and j exchanged
Swap(strats, i, j) ==
    [k \in 1..Len(strats) |->
        IF k = i THEN strats[j] ELSE IF k = j THEN strats[i] ELSE strats[k]]

\* C1: every point MultiStrategyGrounding.locate returns lies inside the
\* screenshot passed to that call: 0 <= x < width and 0 <= y < height.
C1_ReturnedPointInBounds ==
    (eCall.made /\ eCall.coords # None) => InBounds(eCall.coords, eCall.screenshot)

\* a call returned a point after an earlier strategy offered an out-of-range one
C1_Witness ==
    /\ eCall.made /\ eCall.coords # None
    /\ \E i \in 1..(eCall.accepted - 1) :
          /\ world[strategies[i]].kind = "point"
          /\ ~InBounds(world[strategies[i]].pt, eCall.screenshot)

\* C2: strategies are invoked in registration order, each at most once; the
\* call returns the point of the first strategy whose point passes
\* validate_result and invokes no strategy after it, whatever the confidences;
\* exchanging two strategies that both match returns the other one's point.
C2_FirstValidatedWins ==
    eCall.made =>
        LET f == FirstValidated(strategies, eCall.screenshot)
        IN  /\ eCall.tried = IF f = 0 THEN Len(strategies) ELSE f
            /\ f # 0 => eCall.coords = world[strategies[f]].pt
            /\ \A j \in (f + 1)..Len(strategies) :
                  (f # 0 /\ ValidAt(strategies, j, eCall.screenshot)) =>
                      EngineLocateResult(Swap(strategies, f, j), eCall.screenshot,
                                         world).coords = world[strategies[j]].pt

\* C3: a strategy whose locate raises is caught, every later strategy is
\* still invoked until one is accepted, and the first later strategy that
\* succeeds has its point returned.
C3_RaiseDoesNotStopSearch ==
    eCall.made =>
        /\ eCall.status = "returned"
        /\ \A i \in 1..Len(strategies) :
              (world[strategies[i]].kind = "raise" /\ i <= eCall.tried) =>
                  /\ eCall.accepted # i
                  /\ i < Len(strategies) => eCall.tried > i
                  /\ \A j \in (i + 1)..Len(strategies) :
                        ( /\ SucceedsAt(strategies, j, eCall.screenshot)
                          /\ \A k \in 1..(j - 1) :
                                ~SucceedsAt(strategies, k, eCall.screenshot) )
                        => /\ eCall.coords = world[strategies[j]].pt
                           /\ eCall.accepted = j

\* a raising strategy was followed by one whose point was returned
C3_Witness ==
    /\ eCall.made /\ eCall.accepted > 1
    /\ \E i \in 1..(eCall.accepted - 1) : world[strategies[i]].kind = "raise"

\* C4: locate never raises; it returns a validated point or None, and None
\* exactly when no strategy produced a point that passed validation.
C4_NoneIffNoValidatedPoint ==
    eCall.made =>
        /\ eCall.status = "returned"
        /\ eCall.coords # None => InBounds(eCall.coords, eCall.screenshot)
        /\ eCall.coords = None <=> FirstValidated(strategies, eCall.screenshot) = 0

\* C7: after a locate call get_last_strategy() is the strategy that produced
\* the returned point, and None when the call returned not found.
C7_LastStrategyReflectsCall ==
    eCall.made =>
        /\ eCall.coords # None => last_successful_strategy = strategies[eCall.accepted]
        /\ eCall.coords = None => last_successful_strategy = NoStrategy

\* C15: add_strategy appends an accepted strategy at the end of the list and
\* leaves the order of the existing entries unchanged; a candidate that is not
\* a BaseGrounding is rejected with an error and the list stays as it was.
C15_AddStrategyAppendsOrRejects ==
    eCall.op = "add_strategy" =>
        /\ eCall.status = "raised" <=> ~IsBaseGrounding(eCall.candidate)
        /\ eCall.status = "raised" => strategies = eCall.registry
        /\ eCall.status = "returned" =>
              /\ Len(strategies) = Len(eCall.registry) + 1
              /\ \A i \in 1..Len(eCall.registry) : strategies[i] = eCall.registry[i]
              /\ strategies[Len(strategies)] = eCall.candidate

\* a strategy was appended behind two different ones
C15_Witness ==
    /\ eCall.op = "add_strategy" /\ eCall.status = "returned"
    /\ Len(eCall.registry) = 2 /\ eCall.registry[1] # eCall.registry[2]
    /\ eCall.candidate # eCall.registry[1]

\* ------------------------------------------------------------------------
\* Properties of the strategy classes
\* ------------------------------------------------------------------------
\* the detection primitive raised during the locate call that just ended
PrimitiveRaised ==
    /\ sCall.made
    /\ \/ sKind \in {"OCR", "FuzzyOCR", "Vision"} /\ sWorld.kind = "raise"
       \/ /\ sKind \in {"Template", "AdaptiveTemplate"}
          /\ \E i \in 1..Len(sCall.matchings) : sWorld.answers[i].kind = "raise"

\* C5: for every strategy class, when the detection primitive raises during
\* locate the exception stays inside locate, the call returns nothing and
\* get_confidence() is exactly -1 afterwards.
C5_PrimitiveErrorGivesMinusOne ==
    PrimitiveRaised =>
        /\ sCall.status = "returned"
        /\ sCall.coords = None
        /\ last_confidence = 0 - ONE

\* C6: for every strategy class get_confidence() is always exactly -1,
\* exactly 0, or a value in (0, 1].
C6_ConfidenceDomain ==
    sKind # "none" =>
        \/ last_confidence = 0 - ONE
        \/ last_confidence = 0
        \/ 0 < last_confidence /\ last_confidence <= ONE

\* the threshold the matcher is given at rung i of the ladder
RungMatching(i) == IF thresholds[i] = 0 THEN threshold ELSE thresholds[i]

\* the matcher, asked at rung i, finds the template
RungMatches(i) == MatcherFinds(sWorld.answers[i], RungMatching(i))

\* the first rung of the ladder at which the matcher finds the template, 0 if none
FirstMatchingRung ==
    IF \E i \in 1..Len(thresholds) : RungMatches(i)
    THEN CHOOSE i \in 1..Len(thresholds) :
             RungMatches(i) /\ \A k \in 1..(i - 1) : ~RungMatches(k)
    ELSE 0

\* centre of the element the matcher reports
ElementCentre ==
    << sWorld.element.left + (sWorld.element.width \div 2),
       sWorld.element.top + (sWorld.element.height \div 2) >>

\* C8: AdaptiveTemplateGrounding.locate calls the matcher once per rung in
\* ladder order and stops at the first rung that matches: the number of
\* matcher calls is that rung's 1-based index (the ladder length when none
\* matches) and the point returned is the one found at that rung.
C8_LadderHaltsAtFirstMatch ==
    (sKind = "AdaptiveTemplate" /\ sCall.made) =>
        LET f == FirstMatchingRung
        IN  /\ Len(sCall.matchings) = IF f = 0 THEN Len(thresholds) ELSE f
            /\ \A i \in 1..Len(sCall.matchings) : sCall.matchings[i] = RungMatching(i)
            /\ sCall.rung = f
            /\ sCall.coords = IF f = 0 THEN None ELSE ElementCentre

\* a ladder search that matched only at its third rung
C8_Witness ==
    /\ sKind = "AdaptiveTemplate" /\ sCall.made
    /\ sCall.rung = 3 /\ Len(sCall.matchings) = 3
    /\ sCall.coords # None
    /\ Len(thresholds) > 3

\* C9: when AdaptiveTemplateGrounding.locate ends with no rung matching, it
\* returns no point and get_confidence() is exactly 0, even if a matcher
\* call raised at some rung.
C9_NoMatchGivesZero ==
    (sKind = "AdaptiveTemplate" /\ sCall.made /\ FirstMatchingRung = 0) =>
        /\ sCall.coords = None
        /\ last_confidence = 0

\* similarity of detection d's text to the target of the call that just ended
SimilarityTo(d, target) == fuzzy_match(matcher, Strip(d.text), Strip(target))

\* d passes both gates of FuzzyOCRGrounding.locate
Qualifies(d, target) ==
    /\ d.confidence >= confidence_threshold
    /\ SimilarityTo(d, target) >= fuzzy_threshold

\* C10: FuzzyOCRGrounding.locate never selects a detection whose similarity
\* is below the fuzzy threshold or whose raw confidence is below the
\* confidence threshold; when a qualifying detection and a non-qualifying
\* one of higher raw confidence are both present, a qualifying one is
\* returned (the qualifying one, when it is the only one).
C10_FuzzySelectsOnlyQualifying ==
    (sKind = "FuzzyOCR" /\ sCall.made /\ sCall.status = "returned") =>
        LET results == sWorld.results
            q(i) == Qualifies(results[i], sCall.target)
        IN  /\ sCall.selected # 0 =>
                  /\ q(sCall.selected)
                  /\ sCall.coords = Centroid(results[sCall.selected].bbox)
            /\ sCall.selected = 0 => sCall.coords = None
            /\ \A i, j \in 1..Len(results) :
                  ( /\ q(i) /\ ~q(j)
                    /\ results[j].confidence > results[i].confidence )
                  => /\ sCall.selected # 0
                     /\ q(sCall.selected)
                     /\ (\A k \in 1..Len(results) : q(k) => k = i) => sCall.selected = i

\* a qualifying detection was returned although an earlier detection of
\* higher raw confidence failed the similarity gate
C10_Witness ==
    /\ sKind = "FuzzyOCR" /\ sCall.made /\ sCall.status = "returned"
    /\ sCall.selected = 2
    /\ sWorld.results[1].confidence > sWorld.results[2].confidence
    /\ sWorld.results[1].confidence >= confidence_threshold
    /\ SimilarityTo(sWorld.results[1], sCall.target) < fuzzy_threshold

\* combined score of detection d: raw confidence times similarity
CombinedScore(d, target) == Mul(d.confidence, SimilarityTo(d, target))

\* C11: among the qualifying detections FuzzyOCRGrounding.locate returns the
\* centroid of the one with the maximum combined score (raw confidence times
\* similarity), the first in detector order on ties, and get_confidence()
\* afterwards equals that maximum combined score.
C11_FuzzyReturnsMaxCombinedScore ==
    (sKind = "FuzzyOCR" /\ sCall.made /\ sCall.status = "returned") =>
        LET results == sWorld.results
            q(i) == Qualifies(results[i], sCall.target)
            score(i) == CombinedScore(results[i], sCall.target)
            best(i) == /\ q(i)
                       /\ \A k \in 1..Len(results) :
                             q(k) => \/ score(k) < score(i)
                                     \/ score(k) = score(i) /\ k >= i
        IN  \A i \in 1..Len(results) :
                best(i) => /\ sCall.selected = i
                           /\ sCall.coords = Centroid(results[i].bbox)
                           /\ last_confidence = score(i)

\* d is a candidate of OCRGrounding.locate(target, case_sensitive, exact_match)
OCRCandidate(d, target, case_sensitive, exact_match) ==
    LET detected == IF case_sensitive THEN Strip(d.text) ELSE Lower(Strip(d.text))
        wanted == IF case_sensitive THEN Strip(target) ELSE Lower(Strip(target))
    IN  /\ ~(d.confidence < confidence_threshold)
        /\ IF exact_match THEN detected = wanted ELSE IsSubstring(wanted, detected)

\* the detection at position i is a candidate of the OCR call that just ended
CandidateAt(i) == OCRCandidate(sWorld.results[i], sCall.target, sCall.args[1], sCall.args[2])

\* an OCRGrounding.locate call just ended and the reader had returned normally
OCRCallEnded == sKind = "OCR" /\ sCall.made /\ sWorld.kind = "results"

\* C12: OCRGrounding.locate treats a detection as a candidate exactly when
\* its raw confidence is not below the threshold and, after stripping and
\* (unless case_sensitive) lower-casing both texts, the detected text equals
\* the target (exact mode) or contains it (partial mode): the detection
\* returned is a candidate, and a point is returned exactly when one exists.
C12_OCRCandidateRule ==
    OCRCallEnded =>
        /\ sCall.selected # 0 => CandidateAt(sCall.selected)
        /\ sCall.coords # None <=> \E i \in 1..Len(sWorld.results) : CandidateAt(i)
        /\ sCall.coords # None <=> sCall.selected # 0

\* an exact, case-insensitive search returned a detection whose text differs
\* from the target in case and surrounding blanks, and a case-sensitive one
\* would not have
C12_Witness ==
    /\ OCRCallEnded /\ sCall.selected # 0
    /\ sCall.args = << FALSE, TRUE >>
    /\ sWorld.results[sCall.selected].text # sCall.target
    /\ ~OCRCandidate(sWorld.results[sCall.selected], sCall.target, TRUE, TRUE)

\* C13: among the candidates OCRGrounding.locate returns the one with the
\* highest raw confidence, the first in detector order when several share
\* it, and get_confidence() afterwards equals that raw confidence.
C13_OCRHighestConfidenceFirstOnTie ==
    OCRCallEnded =>
        LET results == sWorld.results
            best(i) == /\ CandidateAt(i)
                       /\ \A k \in 1..Len(results) :
                             CandidateAt(k) =>
                                 \/ results[k].confidence < results[i].confidence
                                 \/ results[k].confidence = results[i].confidence /\ k >= i
        IN  \A i \in 1..Len(results) :
                best(i) => /\ sCall.selected = i
                           /\ sCall.coords = Centroid(results[i].bbox)
                           /\ last_confidence = results[i].confidence

\* two candidates of equal confidence at different places: the first was returned
C13_Witness ==
    /\ OCRCallEnded /\ sCall.selected = 1 /\ Len(sWorld.results) >= 2
    /\ CandidateAt(2)
    /\ sWorld.results[2].confidence = sWorld.results[1].confidence
    /\ Centroid(sWorld.results[2].bbox) # Centroid(sWorld.results[1].bbox)

\* C14: when the reader returns normally and no detection passes filtering
\* and matching (an empty list included), OCRGrounding.locate and
\* FuzzyOCRGrounding.locate return no point and get_confidence() is exactly
\* 0, whatever confidence an earlier call left.
C14_NothingPassesGivesZero ==
    (sCall.made /\ sKind \in {"OCR", "FuzzyOCR"} /\ sWorld.kind = "results") =>
        LET passes(i) == IF sKind = "OCR"
                         THEN CandidateAt(i)
                         ELSE Qualifies(sWorld.results[i], sCall.target)
        IN  (\A i \in 1..Len(sWorld.results) : ~passes(i)) =>
                /\ sCall.status = "returned"
                /\ sCall.coords = None
                /\ last_confidence = 0

\* an OCR search found nothing on a screen that has text, right after a
\* search that had succeeded
C14_Witness ==
    /\ OCRCallEnded /\ sCall.coords = None /\ last_confidence = 0
    /\ sWorld.results # << >>
    /\ sCall.before = "found"

\* v lies in [0, 1]
InUnitInterval(v) == 0 <= v /\ v <= ONE

\* C16: the similarity threshold of a template strategy always lies in
\* [0, 1]: an out-of-range value given to the constructor, to
\* update_threshold or as locate's threshold override is rejected and never
\* reaches the matcher, and a rejected update_threshold leaves the stored
\* threshold unchanged.
C16_TemplateThresholdInRange ==
    sKind \in {"Template", "AdaptiveTemplate"} =>
        /\ InUnitInterval(threshold)
        /\ \A i \in 1..Len(sCall.matchings) : InUnitInterval(sCall.matchings[i])
        /\ sCall.op = "update_threshold" =>
              /\ sCall.status = "raised" <=> ~InUnitInterval(sCall.args[1])
              /\ sCall.status = "raised" => threshold = sCall.before

\* C17: a locate call that directly repeats the previous one (same
\* screenshot and request, detection primitives answering the same way)
\* yields the same point and the same confidence class, for each strategy
\* class and for MultiStrategyGrounding.
C17_RepeatedLocateSameResult ==
    /\ (sCall.made /\ sCall.repeated) =>
          /\ sCall.coords = sCall.previous
          /\ ConfidenceClass(last_confidence) = sCall.before
    /\ (eCall.made /\ eCall.repeated) => eCall.coords = eCall.previous

\* the engine was called twice in a row and both calls returned the point of
\* a strategy behind one that failed
C17_Witness ==
    /\ eCall.made /\ eCall.repeated
    /\ eCall.coords # None /\ eCall.accepted >= 2
    /\ last_successful_strategy = strategies[eCall.accepted]

\* C18: for every strategy class the confidence class after a locate call
\* agrees with what the call returned: get_confidence() is in (0, 1] iff a
\* point was returned, and 0 or -1 iff nothing was returned.
C18_ConfidenceClassMatchesResult ==
    (sKind # "none" /\ sCall.made) =>
        /\ sCall.coords # None <=> ConfidenceClass(last_confidence) = "found"
        /\ sCall.coords = None <=>
              ConfidenceClass(last_confidence) \in {"not found", "error"}

\* C19: on a freshly constructed strategy of any class, before any locate
\* call, get_confidence() returns exactly -1.
C19_FreshConfidenceMinusOne ==
    (sKind # "none" /\ ~sLocated) => last_confidence = 0 - ONE

\* a strategy never asked to locate, whose screen has text and whose
\* get_all_text has just been called
C19_Witness ==
    /\ sKind = "FuzzyOCR" /\ ~sLocated
    /\ sCall.op = "get_all_text" /\ sCall.listed # << >>

\* C20: OCRGrounding.get_all_text returns exactly the detections whose raw
\* confidence is at or above the strategy's confidence threshold.
C20_GetAllTextFiltersByThreshold ==
    (sKind \in {"OCR", "FuzzyOCR"} /\ sCall.op = "get_all_text"
        /\ sCall.status = "returned") =>
        LET AtOrAbove(d) == d.confidence >= confidence_threshold
        IN  sCall.listed = GetAllText(SelectSeq(sWorld.results, AtOrAbove))

\* ------------------------------------------------------------------------
\* find_multiple
\* ------------------------------------------------------------------------
\* the detection contains the wanted text, letter case ignored, at a confidence
\* not below the threshold
ContainsTarget(d, target) ==
    IsSubstring(Lower(target), Lower(Strip(d.text))) /\ d.confidence >= confidence_threshold

\* positions in the detector output of the detections find_multiple is to report
MatchPositions == { i \in DOMAIN sWorld.results : ContainsTarget(sWorld.results[i], sCall.target) }

\* the entry find_multiple reports for the detection at position i
EntryOf(i) ==
    [centre |-> Centroid(sWorld.results[i].bbox), confidence |-> sWorld.results[i].confidence]

\* a find_multiple call just returned
FindMultipleReturned ==
    sKind \in {"OCR", "FuzzyOCR"} /\ sCall.op = "find_multiple" /\ sCall.status = "returned"

\* the list is made of entries of matching detections, in order of
\* non-increasing confidence
ListedAreMatchesInOrder ==
    /\ \A j \in DOMAIN sCall.listed : \E i \in MatchPositions : sCall.listed[j] = EntryOf(i)
    /\ \A j, k \in DOMAIN sCall.listed :
          j < k => sCall.listed[j].confidence >= sCall.listed[k].confidence

\* the list is the n highest-confidence matches
ListedAreTop(n) ==
    /\ Len(sCall.listed) = (IF n < Cardinality(MatchPositions) THEN n ELSE Cardinality(MatchPositions))
    /\ \A i \in MatchPositions :
          (\A j \in DOMAIN sCall.listed : sCall.listed[j] # EntryOf(i)) =>
              \A j \in DOMAIN sCall.listed : sCall.listed[j].confidence >= sWorld.results[i].confidence

\* C21: find_multiple returns every detection that contains the target
\* (case-insensitively) at a confidence at or above the threshold, ordered by
\* non-increasing confidence, and whenever a maximum count is given (0
\* included) the result has at most that many entries, the highest-confidence
\* ones.
C21_FindMultipleSortedAndCapped ==
    FindMultipleReturned =>
        /\ ListedAreMatchesInOrder
        /\ IF sCall.args = NoArg
           THEN ListedAreTop(Cardinality(MatchPositions))
           ELSE ListedAreTop(sCall.args[1])

\* the same with the maximum count restricted to None and positive values
C21_FindMultipleOutsideZero ==
    (FindMultipleReturned /\ sCall.args # <<0>>) => C21_FindMultipleSortedAndCapped

\* a call with a positive maximum that cut the list
C21_CappedCall ==
    /\ FindMultipleReturned /\ sCall.args = <<1>>
    /\ Cardinality(MatchPositions) = 2 /\ Len(sCall.listed) = 1

\* the call that just ended is one of the two listing methods
ListingCallEnded == sCall.op \in {"get_all_text", "find_multiple"}

\* C22: get_all_text and find_multiple are read-only: whenever one of them
\* ends, whether it returned or raised and whatever locate calls came before,
\* the last confidence, the stored last detections and the configuration are
\* what they were when it started.
C22_ListingCallsAreReadOnly ==
    [][ListingCallEnded' =>
            /\ last_confidence' = last_confidence
            /\ last_detections' = last_detections
            /\ strategyConfig' = strategyConfig]_vars

\* a listing call that returned a non-empty list after a locate had stored a
\* confidence and detections other than the ones now on the screen
C22_Witness ==
    /\ ListingCallEnded /\ sCall.status = "returned" /\ sCall.listed # << >>
    /\ sLocated /\ last_confidence > 0
    /\ last_detections # << >> /\ last_detections # sWorld.results

\* ------------------------------------------------------------------------
\* DesktopAutomationWorkflow._setup_grounding
\* ------------------------------------------------------------------------
\* the installation setup runs in: the reference template file exists, botcity
\* can be imported, easyocr can be imported
Installations ==
    [template_exists : BOOLEAN, botcity_available : BOOLEAN, ocr_available : BOOLEAN]

\* the strategy objects main.py constructs: the adaptive template strategy
\* and the fuzzy OCR strategy
TemplateStrategy == "s1"

FuzzyStrategy == "s2"

\* the exception TemplateGrounding.__init__ raises in installation env
TemplateInitError(env) ==
    IF ~env.botcity_available THEN "ImportError"
    ELSE IF ~env.template_exists THEN "FileNotFoundError"
    ELSE "none"

\* the exception OCRGrounding.__init__ raises in installation env
OCRInitError(env) == IF ~env.ocr_available THEN "ImportError" ELSE "none"

\* the workflow object is being constructed and reaches _setup_grounding
SetupPending(env) ==
    [status |-> "pending", env |-> env, warnings |-> << >>, built |-> << >>]

\* _setup_grounding letting the first constructor exception leave setup
SetupGrounding_abortsOnError ==
    LET first == IF TemplateInitError(setup.env) = "none"
                 THEN Appended(<< >>, TemplateStrategy) ELSE << >>
        failed == TemplateInitError(setup.env) # "none" \/ OCRInitError(setup.env) # "none"
        built == IF failed THEN << >> ELSE Appended(first, FuzzyStrategy)
    IN  /\ setup.status = "pending"
        /\ strategies' = built
        /\ setup' = [setup EXCEPT !.status = IF failed THEN "raised" ELSE "returned",
                                  !.built = built]
        /\ eCall' = NoCall
        /\ UNCHANGED << last_successful_strategy, world, retry, probe, workflow >>
        /\ UNCHANGED strategyVars

\* _setup_grounding(): each strategy is constructed and registered inside its
\* own try block; an exception becomes a logged warning; RuntimeError when the
\* registry ends up empty
SetupGrounding ==
    LET first == IF TemplateInitError(setup.env) = "none"
                 THEN Appended(<< >>, TemplateStrategy) ELSE << >>
        built == IF OCRInitError(setup.env) = "none"
                 THEN Appended(first, FuzzyStrategy) ELSE first
        warned == (IF TemplateInitError(setup.env) = "none"
                   THEN << >> ELSE << TemplateInitError(setup.env) >>)
                  \o (IF OCRInitError(setup.env) = "none"
                      THEN << >> ELSE << OCRInitError(setup.env) >>)
    IN  /\ setup.status = "pending"
        /\ strategies' = built
        /\ setup' = [setup EXCEPT !.status = IF Len(built) = 0 THEN "raised" ELSE "returned",
                                  !.warnings = warned, !.built = built]
        /\ eCall' = NoCall
        /\ UNCHANGED << last_successful_strategy, world, retry, probe, workflow >>
        /\ UNCHANGED strategyVars

\* a workflow under construction in any installation; afterwards the engine
\* setup returned is used
SetupInit ==
    /\ \E env \in Installations : setup = SetupPending(env)
    /\ EngineIdle /\ StrategyIdle
    /\ retry = NoRetry /\ probe = NoProbe /\ workflow = NoWorkflow

SetupNext ==
    \/ SetupGrounding
    \/ /\ setup.status = "returned"
       /\ \E i \in DOMAIN strategies, o \in Outcomes : WorldChanges(strategies[i], o)
    \/ /\ setup.status = "returned"
       /\ \E screenshot \in ScreenSizes : EngineLocate(screenshot)

SpecSetup == SetupInit /\ [][SetupNext]_vars

\* some strategy of the installation cannot be constructed
ConfigurationError ==
    TemplateInitError(setup.env) # "none" \/ OCRInitError(setup.env) # "none"

\* C23 as stated: a configuration error while setting up the grounding system
\* (reference template absent, required dependency missing) aborts
\* construction of the engine: it is not swallowed and no engine is produced
\* with that strategy left out.
C23_ConfigurationErrorAbortsSetup ==
    (setup.status \in {"returned", "raised"} /\ ConfigurationError) =>
        setup.status = "raised"

\* C23, amended: a configuration error in one strategy's constructor is caught
\* and logged as a warning; setup goes on and returns an engine holding
\* exactly the strategies that could be constructed, template strategy before
\* fuzzy OCR strategy; setup raises exactly when no strategy could be
\* constructed.
C23_SetupKeepsConstructibleStrategies ==
    setup.status \in {"returned", "raised"} =>
        LET templateOk == setup.env.botcity_available /\ setup.env.template_exists
            ocrOk == setup.env.ocr_available
        IN  /\ setup.status = "raised" <=> (~templateOk /\ ~ocrOk)
            /\ strategies = (IF templateOk THEN << TemplateStrategy >> ELSE << >>)
                            \o (IF ocrOk THEN << FuzzyStrategy >> ELSE << >>)
            /\ Len(setup.warnings) = (IF templateOk THEN 0 ELSE 1) + (IF ocrOk THEN 0 ELSE 1)

\* the engine setup returned without the template strategy, whose template is
\* absent, has answered a locate call through the fuzzy OCR strategy
C23_Witness ==
    /\ setup.status = "returned" /\ ~setup.env.template_exists
    /\ strategies = << FuzzyStrategy >>
    /\ eCall.made /\ eCall.accepted = 1

\* ------------------------------------------------------------------------
\* utils.retry: retry_on_exception and retry_function
\* ------------------------------------------------------------------------
\* largest max_attempts tried
MaxAttempts == 3

\* what one invocation of the wrapped function does: it returns, raises an
\* exception of a type listed in `exceptions`, or raises one of another type
AttemptOutcomes == { "returns", "listed", "unlisted" }

\* the on_retry callback: not given, returns, or raises (retry_function has none)
OnRetryKinds == { "none", "returns", "raises" }

\* delay and backoff arguments (seconds; time.sleep rejects a negative length)
RetryDelays == { 1, 0 - 1 }

RetryBackoffs == { 1, 2 }

\* the call has entered the loop: current_delay = delay, last_exception = None
\*   log    : outcome of each invocation of the function so far
\*   slept  : the lengths of the sleeps between attempts
\*   notified : number of on_retry calls made
\*   result : number of the attempt whose result is returned, 0 if none
\*   error  : where the exception leaving the call came from, and the number
\*            of the attempt whose exception it is (0: not an attempt's)
RetryStarted(flavour, max_attempts, on_retry, delay, backoff) ==
    [phase |-> "running", flavour |-> flavour, max_attempts |-> max_attempts,
     on_retry |-> on_retry, backoff |-> backoff, current_delay |-> delay,
     log |-> << >>, slept |-> << >>, notified |-> 0, result |-> 0,
     error |-> [from |-> "none", attempt |-> 0]]

\* the loop re-raising the first caught exception instead of the last
RetryAttempt_raisesFirst(outcome) ==
    LET attempt == Len(retry.log) + 1
        log == Append(retry.log, outcome)
        called == IF retry.on_retry = "none" THEN 0 ELSE 1
    IN  /\ retry.phase = "running"
        /\ attempt <= retry.max_attempts
        /\ retry' =
             IF outcome = "returns"
             THEN [retry EXCEPT !.log = log, !.phase = "returned", !.result = attempt]
             ELSE IF outcome = "unlisted"
             THEN [retry EXCEPT !.log = log, !.phase = "raised",
                                !.error = [from |-> "attempt", attempt |-> attempt]]
             ELSE IF attempt < retry.max_attempts
             THEN IF retry.on_retry = "raises"
                  THEN [retry EXCEPT !.log = log, !.phase = "raised",
                                     !.notified = @ + 1,
                                     !.error = [from |-> "on_retry", attempt |-> 0]]
                  ELSE IF retry.current_delay < 0
                  THEN [retry EXCEPT !.log = log, !.phase = "raised",
                                     !.notified = @ + called,
                                     !.error = [from |-> "sleep", attempt |-> 0]]
                  ELSE [retry EXCEPT !.log = log,
                                     !.notified = @ + called,
                                     !.slept = Append(@, retry.current_delay),
                                     !.current_delay = @ * retry.backoff]
             ELSE [retry EXCEPT !.log = log, !.phase = "raised",
                                !.error = [from |-> "attempt", attempt |-> 1]]
        /\ UNCHANGED << setup, probe, workflow >>
        /\ UNCHANGED << engineVars, strategyVars >>

\* the loop treating every exception as a listed one
RetryAttempt_catchesAll(outcome) ==
    LET attempt == Len(retry.log) + 1
        log == Append(retry.log, outcome)
        called == IF retry.on_retry = "none" THEN 0 ELSE 1
    IN  /\ retry.phase = "running"
        /\ attempt <= retry.max_attempts
        /\ retry' =
             IF outcome = "returns"
             THEN [retry EXCEPT !.log = log, !.phase = "returned", !.result = attempt]
             ELSE IF attempt < retry.max_attempts
             THEN IF retry.on_retry = "raises"
                  THEN [retry EXCEPT !.log = log, !.phase = "raised",
                                     !.notified = @ + 1,
                                     !.error = [from |-> "on_retry", attempt |-> 0]]
                  ELSE IF retry.current_delay < 0
                  THEN [retry EXCEPT !.log = log, !.phase = "raised",
                                     !.notified = @ + called,
                                     !.error = [from |-> "sleep", attempt |-> 0]]
                  ELSE [retry EXCEPT !.log = log,
                                     !.notified = @ + called,
                                     !.slept = Append(@, retry.current_delay),
                                     !.current_delay = @ * retry.backoff]
             ELSE [retry EXCEPT !.log = log, !.phase = "raised",
                                !.error = [from |-> "attempt", attempt |-> attempt]]
        /\ UNCHANGED << setup, probe, workflow >>
        /\ UNCHANGED << engineVars, strategyVars >>

\* one pass of `for attempt in range(1, max_attempts + 1)`, with what follows
\* the loop when the pass is the last one: the function is invoked; its
\* result is returned; an exception outside `exceptions` propagates; a listed
\* one is kept as last_exception and, before the last attempt, followed by
\* on_retry (decorator only), time.sleep(current_delay) and current_delay *=
\* backoff; after the last attempt last_exception is raised
RetryAttempt(outcome) ==
    LET attempt == Len(retry.log) + 1
        log == Append(retry.log, outcome)
        called == IF retry.on_retry = "none" THEN 0 ELSE 1
    IN  /\ retry.phase = "running"
        /\ attempt <= retry.max_attempts
        /\ retry' =
             IF outcome = "returns"
             THEN [retry EXCEPT !.log = log, !.phase = "returned", !.result = attempt]
             ELSE IF outcome = "unlisted"
             THEN [retry EXCEPT !.log = log, !.phase = "raised",
                                !.error = [from |-> "attempt", attempt |-> attempt]]
             ELSE IF attempt < retry.max_attempts
             THEN IF retry.on_retry = "raises"
                  THEN [retry EXCEPT !.log = log, !.phase = "raised",
                                     !.notified = @ + 1,
                                     !.error = [from |-> "on_retry", attempt |-> 0]]
                  ELSE IF retry.current_delay < 0
                  THEN [retry EXCEPT !.log = log, !.phase = "raised",
                                     !.notified = @ + called,
                                     !.error = [from |-> "sleep", attempt |-> 0]]
                  ELSE [retry EXCEPT !.log = log,
                                     !.notified = @ + called,
                                     !.slept = Append(@, retry.current_delay),
                                     !.current_delay = @ * retry.backoff]
             ELSE [retry EXCEPT !.log = log, !.phase = "raised",
                                !.error = [from |-> "attempt", attempt |-> attempt]]
        /\ UNCHANGED << setup, probe, workflow >>
        /\ UNCHANGED << engineVars, strategyVars >>

\* the loop body never ran and the call returns None
RetryLoopSkipped_returnsNone ==
    /\ retry.phase = "running"
    /\ retry.max_attempts <= 0
    /\ retry' = [retry EXCEPT !.phase = "returned"]
    /\ UNCHANGED << setup, probe, workflow >>
    /\ UNCHANGED << engineVars, strategyVars >>

\* range(1, max_attempts + 1) is empty: the loop body never runs and
\* `raise last_exception` finds last_exception = None, which is a TypeError
RetryLoopSkipped ==
    /\ retry.phase = "running"
    /\ retry.max_attempts <= 0
    /\ retry' = [retry EXCEPT !.phase = "raised",
                              !.error = [from |-> "raise None", attempt |-> 0]]
    /\ UNCHANGED << setup, probe, workflow >>
    /\ UNCHANGED << engineVars, strategyVars >>

\* max_attempts arguments
AttemptLimits == (0 - 1)..MaxAttempts

\* a call through the decorator's wrapper or through retry_function
RetryInit ==
    /\ \E max_attempts \in AttemptLimits, on_retry \in OnRetryKinds,
          delay \in RetryDelays, backoff \in RetryBackoffs :
          \/ retry = RetryStarted("decorator", max_attempts, on_retry, delay, backoff)
          \/ retry = RetryStarted("function", max_attempts, "none", delay, backoff)
    /\ EngineIdle /\ StrategyIdle
    /\ setup = NoSetup /\ probe = NoProbe /\ workflow = NoWorkflow

RetryNext ==
    \/ \E outcome \in AttemptOutcomes : RetryAttempt(outcome)
    \/ RetryLoopSkipped

\* the wrapped function and time.sleep return or raise: a running call goes on
SpecRetry == RetryInit /\ [][RetryNext]_vars /\ WF_vars(RetryNext)

\* every invocation so far raised
AllAttemptsRaised == \A i \in DOMAIN retry.log : retry.log[i] # "returns"

RetryContract ==
    /\ Len(retry.log) <= retry.max_attempts
    /\ retry.phase = "returned" =>
          /\ retry.log # << >> /\ retry.log[Len(retry.log)] = "returns"
          /\ \A i \in 1..(Len(retry.log) - 1) : retry.log[i] # "returns"
          /\ retry.result = Len(retry.log)
    /\ (Len(retry.log) = retry.max_attempts /\ AllAttemptsRaised) =>
          /\ retry.phase = "raised"
          /\ retry.error = [from |-> "attempt", attempt |-> retry.max_attempts]

\* C24: with max_attempts >= 1 the function is invoked at most max_attempts
\* times and the call always ends: it returns the result of the first
\* attempt that does not raise, with no attempt after it, and when all
\* max_attempts attempts raise it raises the exception of the last attempt.
C24_RetryBoundedAndTerminates ==
    /\ []((retry.phase # "idle" /\ retry.max_attempts >= 1) => RetryContract)
    /\ <>(retry.phase \in {"returned", "raised"})

\* a call that returned the result of its last allowed attempt after two
\* failures and two sleeps
C24_Witness ==
    /\ retry.phase = "returned" /\ retry.max_attempts = 3 /\ retry.result = 3
    /\ Len(retry.slept) = 2

\* a call that raised the last attempt's exception after every attempt failed
C24_ExhaustedCall ==
    /\ retry.phase = "raised" /\ retry.max_attempts = 3 /\ Len(retry.log) = 3
    /\ retry.log = << "listed", "listed", "listed" >>

\* ------------------------------------------------------------------------
\* Template strategies: point, confidence and thresholds
\* ------------------------------------------------------------------------
\* a locate call on a template strategy just returned a point
TemplateFound ==
    sKind \in {"Template", "AdaptiveTemplate"} /\ sCall.made /\ sCall.coords # None

\* h is size div 2: the largest integer whose double does not exceed size
IsHalfOf(h, size) == 2 * h <= size /\ size < 2 * h + 2

\* C25: the point a template strategy returns is exactly
\* (left + width div 2, top + height div 2) of the matched element.
C25_TemplatePointIsElementCentre ==
    TemplateFound =>
        /\ Len(sCall.coords) = 2
        /\ IsHalfOf(sCall.coords[1] - sWorld.element.left, sWorld.element.width)
        /\ IsHalfOf(sCall.coords[2] - sWorld.element.top, sWorld.element.height)

\* a match of an element of odd width and height at a later rung of the ladder
C25_Witness ==
    /\ TemplateFound /\ sKind = "AdaptiveTemplate" /\ sCall.rung >= 2
    /\ sWorld.element.width = 3 /\ sWorld.element.height = 3
    /\ sCall.coords = << 2, 2 >>

\* the threshold in effect at the match of the call that just returned: the
\* one the matcher was given by a plain template search, the matching rung's
\* own threshold on the ladder
ThresholdInEffect ==
    IF sKind = "AdaptiveTemplate" THEN thresholds[sCall.rung] ELSE sCall.matchings[1]

\* C26: after a successful template match get_confidence() is the matcher's
\* score or, when the matcher exposes none, the threshold in effect (for the
\* adaptive strategy, the threshold of the rung that matched).
C26_ConfidenceIsScoreOrThreshold ==
    TemplateFound =>
        last_confidence = (IF sWorld.element.exposes
                           THEN sWorld.answers[sCall.rung].sim
                           ELSE ThresholdInEffect)

\* the same on ladders without a zero rung
C26_ConfidenceOutsideZeroRungs ==
    (TemplateFound /\ \A i \in DOMAIN thresholds : thresholds[i] # 0) =>
        C26_ConfidenceIsScoreOrThreshold

\* a match at a later rung by a matcher that exposes no score
C26_UnexposedMatch ==
    /\ TemplateFound /\ sKind = "AdaptiveTemplate" /\ sCall.rung = 2
    /\ ~sWorld.element.exposes /\ last_confidence = Pct(80)

\* C28: at rung i of the ladder the matcher is invoked with exactly
\* thresholds[i], for every ladder value in [0, 1], 0 included; the stored
\* threshold is never used in its place.
C28_RungUsesItsOwnThreshold ==
    (sKind = "AdaptiveTemplate" /\ sCall.made) =>
        \A i \in DOMAIN sCall.matchings : sCall.matchings[i] = thresholds[i]

\* the same on ladders without a zero rung
C28_NonZeroRungUsesItsOwnThreshold ==
    (sKind = "AdaptiveTemplate" /\ sCall.made /\ \A i \in DOMAIN thresholds : thresholds[i] # 0) =>
        /\ sCall.matchings # << >>
        /\ \A i \in DOMAIN sCall.matchings : sCall.matchings[i] = thresholds[i]

\* ------------------------------------------------------------------------
\* Functions applied to arguments: centres, constructors, validation
\* ------------------------------------------------------------------------
\* most corners of a bounding polygon
MaxCorners == 3

\* corner points of bounding polygons
CornerPoints == { <<x, y>> : x \in {0 - 3, 0, 2}, y \in {0 - 1, 4} }

Polygons == UNION { [1..n -> CornerPoints] : n \in 1..MaxCorners }

\* threshold arguments within [0, 1], and none
SuppliedThresholds == { NoArg, <<0>>, <<Pct(40)>>, <<ONE>> }

\* ladders within [0, 1], and none
SuppliedLadders == { << >>, <<Pct(90), Pct(80)>>, <<Pct(90), 0>>, <<0, Pct(50)>> }

\* points handed to validation, and screen sizes
ValidatedPoints == { <<x, y>> : x \in (0 - 1)..3, y \in (0 - 1)..2 }

LocateFunctions == { "OCRGrounding.locate", "FuzzyOCRGrounding.locate" }

ThresholdConstructors == { "TemplateGrounding", "OCRGrounding", "FuzzyOCRGrounding" }

ValidationFunctions == { "validate_result", "validate_coordinates" }

\* utils.validation.validate_coordinates with the upper bounds included
validate_coordinates_inclusive(x, y, screen_width, screen_height) ==
    IF ~(0 <= x /\ x <= screen_width)
    THEN FALSE
    ELSE IF ~(0 <= y /\ y <= screen_height)
    THEN FALSE
    ELSE TRUE

\* utils.validation.validate_coordinates(x, y, screen_width, screen_height)
validate_coordinates(x, y, screen_width, screen_height) ==
    IF ~(0 <= x /\ x < screen_width)
    THEN FALSE
    ELSE IF ~(0 <= y /\ y < screen_height)
    THEN FALSE
    ELSE TRUE

\* a function and the arguments it is about to be applied to
ProbeInputs ==
    { [fn |-> f, args |-> b] : f \in LocateFunctions, b \in Polygons }
        \cup { [fn |-> f, args |-> a] : f \in ThresholdConstructors, a \in SuppliedThresholds }
        \cup { [fn |-> "AdaptiveTemplateGrounding", args |-> l] : l \in SuppliedLadders }
        \cup { [fn |-> "validate_result", args |-> [coords |-> c, size |-> z]] :
                  c \in ValidatedPoints \cup {None}, z \in ScreenSizes }
        \cup { [fn |-> "validate_coordinates", args |-> [coords |-> c, size |-> z]] :
                  c \in ValidatedPoints, z \in ScreenSizes }

Pending(input) == [fn |-> input.fn, args |-> input.args, applied |-> FALSE, result |-> << >>]

\* one detection of the text "Save" with bounding polygon bbox
DetectionAt(bbox, confidence) ==
    [kind |-> "results",
     results |-> << [bbox |-> bbox, text |-> <<"S", "a", "v", "e">>,
                     confidence |-> confidence] >>]

\* locate of a freshly constructed OCR / fuzzy OCR strategy on a screen showing
\* "Save" inside the polygon
ApplyLocate ==
    /\ probe.fn \in LocateFunctions /\ ~probe.applied
    /\ probe' = [probe EXCEPT
         !.applied = TRUE,
         !.result =
            IF probe.fn = "OCRGrounding.locate"
            THEN OCRLocate(DetectionAt(probe.args, Pct(95)), <<"S", "a", "v", "e">>,
                           FALSE, FALSE, OCRInitThreshold(NoArg), InitialConfidence,
                           << >>).coords
            ELSE FuzzyLocate(DetectionAt(probe.args, Pct(95)), <<"S", "a", "v", "e">>,
                             OCRInitThreshold(NoArg), DefaultFuzzyThreshold, TRUE,
                             InitialConfidence, << >>).coords]
    /\ UNCHANGED << setup, retry, workflow >>
    /\ UNCHANGED << engineVars, strategyVars >>

\* a constructor called with a threshold (or ladder), then locate:
\*   stored    : the threshold (ladder) the object holds
\*   matchings : the thresholds the matcher is given by a locate during which
\*               it raises at every call (template classes)
\*   finds     : locate finds a detection of confidence 0.3 (OCR classes)
ApplyConstructor ==
    /\ probe.fn \in ThresholdConstructors \cup {"AdaptiveTemplateGrounding"} /\ ~probe.applied
    /\ probe' = [probe EXCEPT
         !.applied = TRUE,
         !.result =
            IF probe.fn = "TemplateGrounding"
            THEN [stored |-> TemplateInitThreshold(probe.args),
                  matchings |-> << TemplateLocate(TemplateInitThreshold(probe.args), NoArg,
                                                  [kind |-> "raise", sim |-> 0],
                                                  CHOOSE e \in Elements : e.exposes).matching >>,
                  finds |-> FALSE]
            ELSE IF probe.fn = "AdaptiveTemplateGrounding"
            THEN [stored |-> AdaptiveInitThresholds(probe.args),
                  matchings |->
                     AdaptiveLocate(AdaptiveInitThreshold(probe.args),
                                    AdaptiveInitThresholds(probe.args),
                                    [i \in 1..Len(AdaptiveInitThresholds(probe.args)) |->
                                        [kind |-> "raise", sim |-> 0]],
                                    CHOOSE e \in Elements : e.exposes,
                                    InitialConfidence).matchings,
                  finds |-> FALSE]
            ELSE IF probe.fn = "OCRGrounding"
            THEN [stored |-> OCRInitThreshold(probe.args), matchings |-> << >>,
                  finds |-> OCRLocate(DetectionAt(Square(0, 0), Pct(30)),
                                      <<"S", "a", "v", "e">>, FALSE, FALSE,
                                      OCRInitThreshold(probe.args), InitialConfidence,
                                      << >>).coords # None]
            ELSE [stored |-> OCRInitThreshold(probe.args), matchings |-> << >>,
                  finds |-> FuzzyLocate(DetectionAt(Square(0, 0), Pct(30)),
                                        <<"S", "a", "v", "e">>, OCRInitThreshold(probe.args),
                                        DefaultFuzzyThreshold, TRUE, InitialConfidence,
                                        << >>).coords # None]]
    /\ UNCHANGED << setup, retry, workflow >>
    /\ UNCHANGED << engineVars, strategyVars >>

\* BaseGrounding.validate_result(coords, screenshot) and
\* validate_coordinates(x, y, screen_width, screen_height)
ApplyValidation ==
    /\ probe.fn \in ValidationFunctions /\ ~probe.applied
    /\ probe' = [probe EXCEPT
         !.applied = TRUE,
         !.result =
            IF probe.fn = "validate_result"
            THEN validate_result(probe.args.coords, probe.args.size)
            ELSE validate_coordinates(probe.args.coords[1], probe.args.coords[2],
                                      probe.args.size[1], probe.args.size[2])]
    /\ UNCHANGED << setup, retry, workflow >>
    /\ UNCHANGED << engineVars, strategyVars >>

FunctionsInit ==
    /\ \E input \in ProbeInputs : probe = Pending(input)
    /\ EngineIdle /\ StrategyIdle
    /\ setup = NoSetup /\ retry = NoRetry /\ workflow = NoWorkflow

FunctionsNext == ApplyLocate \/ ApplyConstructor \/ ApplyValidation

SpecFunctions == FunctionsInit /\ [][FunctionsNext]_vars

\* r is total / n with the fraction dropped (n > 0)
IsTruncatedQuotient(r, total, n) ==
    IF total >= 0
    THEN n * r <= total /\ total < n * r + n
    ELSE n * r >= total /\ total > n * r - n

\* C27: the point the OCR and fuzzy OCR strategies return for a detection is
\* (mean x, mean y) of its polygon's corners, each truncated to an integer,
\* whatever the number of corners and their coordinates.
C27_PointIsTruncatedMeanOfCorners ==
    (probe.fn \in LocateFunctions /\ probe.applied) =>
        /\ probe.result # None
        /\ IsTruncatedQuotient(probe.result[1],
                               SumSeq([k \in DOMAIN probe.args |-> probe.args[k][1]]),
                               Len(probe.args))
        /\ IsTruncatedQuotient(probe.result[2],
                               SumSeq([k \in DOMAIN probe.args |-> probe.args[k][2]]),
                               Len(probe.args))

\* a two-corner polygon with means -1.5 and -1: the point is (-1, -1)
C27_Witness ==
    /\ probe.fn = "FuzzyOCRGrounding.locate" /\ probe.applied
    /\ probe.args = << <<0 - 3, 0 - 1>>, <<0, 0 - 1>> >>
    /\ probe.result = << 0 - 1, 0 - 1 >>

\* a constructor was called with a threshold (a ladder) and locate followed
ConstructedWithThreshold ==
    /\ probe.fn \in ThresholdConstructors \cup {"AdaptiveTemplateGrounding"}
    /\ probe.applied /\ probe.args # << >>

\* the supplied threshold is stored and is the one locate works with
SuppliedIsUsed ==
    IF probe.fn = "TemplateGrounding"
    THEN probe.result.stored = probe.args[1] /\ probe.result.matchings = << probe.args[1] >>
    ELSE IF probe.fn = "AdaptiveTemplateGrounding"
    THEN probe.result.stored = probe.args /\ probe.result.matchings = probe.args
    ELSE /\ probe.result.stored = probe.args[1]
         /\ probe.result.finds <=> (Pct(30) >= probe.args[1])

\* C29: a threshold supplied at construction is the one used, for every
\* value in [0, 1], 0 included: the template threshold, the OCR and fuzzy OCR
\* confidence threshold, the adaptive ladder.
C29_SuppliedThresholdIsUsed == ConstructedWithThreshold => SuppliedIsUsed

\* the same for supplied values other than 0
C29_NonZeroSuppliedThresholdIsUsed ==
    (ConstructedWithThreshold /\ \A i \in DOMAIN probe.args : probe.args[i] # 0) =>
        SuppliedIsUsed

\* the point is present and inside a screen of the given size
WithinScreen(c, size) ==
    /\ c # None
    /\ c[1] \in 0..(size[1] - 1)
    /\ c[2] \in 0..(size[2] - 1)

\* C30: validate_result is true exactly when coordinates are present and
\* 0 <= x < width and 0 <= y < height: (0, 0) and (width - 1, height - 1) are
\* accepted, (width, y), (x, height) and negative coordinates are rejected;
\* validate_coordinates applies the same predicate.
C30_ValidationIsHalfOpenBounds ==
    (probe.fn \in ValidationFunctions /\ probe.applied) =>
        LET c == probe.args.coords
            width == probe.args.size[1]
            height == probe.args.size[2]
        IN  /\ probe.result \in BOOLEAN
            /\ probe.result <=> WithinScreen(c, probe.args.size)
            /\ c \in { <<0, 0>>, <<width - 1, height - 1>> } => probe.result
            /\ (c # None /\ (c[1] = width \/ c[2] = height \/ c[1] < 0 \/ c[2] < 0)) =>
                  ~probe.result

\* validate_coordinates rejected a point on the right edge of a 3 x 2 screen
\* whose y is inside
C30_Witness ==
    /\ probe.fn = "validate_coordinates" /\ probe.applied
    /\ probe.args = [coords |-> << 3, 1 >>, size |-> << 3, 2 >>]
    /\ probe.result = FALSE

\* validate_result accepted the last pixel of the screen
C30_LastPixelAccepted ==
    /\ probe.fn = "validate_result" /\ probe.applied
    /\ probe.args = [coords |-> << 2, 1 >>, size |-> << 3, 2 >>]
    /\ probe.result = TRUE

\* the step is an attempt whose exception is of a type outside `exceptions`
UnlistedAttempt ==
    retry.phase = "running" /\ retry'.log = Append(retry.log, "unlisted")

\* C31: an exception whose type is not in the exceptions tuple leaves the call
\* from the attempt that raised it: no further attempt, no sleep and no
\* on_retry call follow.
C31_UnlistedExceptionPropagates ==
    /\ [][UnlistedAttempt =>
              /\ retry'.phase = "raised"
              /\ retry'.error = [from |-> "attempt", attempt |-> Len(retry'.log)]
              /\ retry'.slept = retry.slept
              /\ retry'.notified = retry.notified]_vars
    /\ []((retry.phase # "idle" /\ \E i \in DOMAIN retry.log : retry.log[i] = "unlisted") =>
              /\ retry.phase = "raised"
              /\ retry.log[Len(retry.log)] = "unlisted")

\* an unlisted exception at the second of three allowed attempts of a
\* decorated function with an on_retry callback: one sleep, one callback call
C31_Witness ==
    /\ retry.phase = "raised" /\ retry.flavour = "decorator" /\ retry.on_retry = "returns"
    /\ retry.max_attempts = 3 /\ retry.log = << "listed", "unlisted" >>
    /\ Len(retry.slept) = 1 /\ retry.notified = 1

\* C38: with max_attempts <= 0 the function is never invoked and the call
\* ends in an error, not in a returned value.
C38_NoAttemptsEndsInError ==
    /\ []((retry.phase # "idle" /\ retry.max_attempts <= 0) =>
              /\ retry.log = << >>
              /\ retry.phase # "returned")
    /\ (retry.phase # "idle" /\ retry.max_attempts <= 0) ~> (retry.phase = "raised")

\* a call with max_attempts = 0 ended in the TypeError of `raise None`
C38_Witness ==
    /\ retry.phase = "raised" /\ retry.max_attempts = 0 /\ retry.log = << >>
    /\ retry.error.from = "raise None"

\* ------------------------------------------------------------------------
\* MultiStrategyGrounding constructed with a strategies list
\* ------------------------------------------------------------------------
\* lists handed to the constructor
ConstructorLists ==
    UNION { [1..n -> StrategyIds \cup OtherObjects] : n \in 0..MaxStrategies }

\* MultiStrategyGrounding.__init__(strategies): self.strategies = strategies or []
EngineConstructedWith(list) ==
    /\ strategies = list
    /\ last_successful_strategy = NoStrategy
    /\ world \in [StrategyIds -> {NoneOutcome}]
    /\ eCall = NoCall

RegistryInit ==
    /\ \E list \in ConstructorLists : EngineConstructedWith(list)
    /\ StrategyIdle /\ UtilIdle

RegistryNext ==
    \/ \E s \in StrategyIds \cup OtherObjects : AddStrategy(s)
    \/ \E o \in Outcomes : WorldChanges("s1", o)
    \/ \E screenshot \in ScreenSizes : EngineLocate(screenshot)

\* an engine constructed with any list, then registered to and searched with
SpecRegistry == RegistryInit /\ [][RegistryNext]_vars

\* C35: every strategy held in the engine's registry is a BaseGrounding, in
\* every reachable state, whether it came through the constructor's
\* strategies list or through add_strategy.
C35_RegistryHoldsOnlyStrategies ==
    \A i \in DOMAIN strategies : IsBaseGrounding(strategies[i])

\* add_strategy never adds to the objects of the registry that are no
\* BaseGrounding: they all come from the constructor's list
C35_OnlyConstructorAdmitsOthers ==
    [][Cardinality({ i \in DOMAIN strategies' : ~IsBaseGrounding(strategies'[i]) })
           = Cardinality({ i \in DOMAIN strategies : ~IsBaseGrounding(strategies[i]) })]_vars

\* a locate call on an engine constructed with [strategy, other object] left
\* the method with the AttributeError of the second entry
C35_LocateRaised ==
    /\ strategies = << "s1", "not_a_strategy" >>
    /\ eCall.made /\ eCall.status = "raised" /\ eCall.tried = 1

\* the strategy at position i returned an in-bounds point and its
\* get_confidence() then raised or gave a value that cannot be formatted
UnreportableAt(i, screenshot) ==
    ValidAt(strategies, i, screenshot) /\ ~world[strategies[i]].confOk

\* C36: when a strategy's locate returns an in-bounds point but its
\* get_confidence() raises or returns a value that cannot be formatted as a
\* number, the engine's locate does not return that strategy's point and does
\* not record it as last successful: the strategy counts as failed and the
\* search continues with the next one.
C36_UnreportableConfidenceSkipsStrategy ==
    eCall.made =>
        /\ eCall.status = "returned"
        /\ eCall.accepted = 0 => eCall.coords = None
        /\ \A i \in 1..Len(strategies) :
              (UnreportableAt(i, eCall.screenshot) /\ i <= eCall.tried) =>
                  /\ eCall.accepted # i
                  /\ i < Len(strategies) => eCall.tried > i
                  /\ i = Len(strategies) => eCall.coords = None
                  /\ \A j \in (i + 1)..Len(strategies) :
                        ( /\ SucceedsAt(strategies, j, eCall.screenshot)
                          /\ \A k \in 1..(j - 1) :
                                ~SucceedsAt(strategies, k, eCall.screenshot) )
                        => /\ eCall.coords = world[strategies[j]].pt
                           /\ eCall.accepted = j

\* the first strategy's in-bounds point was dropped for its unreadable
\* confidence and the second strategy's point was returned
C36_Witness ==
    /\ eCall.made /\ eCall.accepted = 2 /\ Len(strategies) >= 2
    /\ UnreportableAt(1, eCall.screenshot)
    /\ eCall.coords = << 1, 0 >>

\* ------------------------------------------------------------------------
\* Requests that carry options
\* ------------------------------------------------------------------------
\* the option sets requests carry
RequestOptions == { {} } \cup { {n} : n \in OptionNames }

\* what the strategies do in this scenario
OptionOutcomes == { NoneOutcome, RaiseOutcome, PointOutcome(<<1, 0>>, Pct(90), TRUE) }

OptionsNext ==
    \/ \E s \in StrategyIds : AddStrategy(s)
    \/ \E s \in StrategyIds, o \in OptionOutcomes : WorldChanges(s, o)
    \/ \E screenshot \in ScreenSizes, options \in RequestOptions :
          EngineLocateWith(screenshot, options)

\* an engine over a TemplateGrounding, an OCRGrounding and a FuzzyOCRGrounding,
\* asked with and without options
SpecOptions == EngineInit /\ [][OptionsNext]_vars

\* the strategy at position i cannot bind the options of the call
RejectsOptionsAt(i) == ~Accepts(ClassOf(strategies[i]), eCall.options)

\* the strategy at position i binds the options and returns an in-bounds point
\* with a readable confidence
SucceedsWithOptionsAt(i) ==
    ~RejectsOptionsAt(i) /\ SucceedsAt(strategies, i, eCall.screenshot)

\* C37: the engine's locate forwards the same request options unchanged to
\* every strategy it tries; a strategy whose locate does not accept one of
\* them fails with an error the engine catches: it is skipped and the request
\* continues with the next strategy instead of failing.
C37_OptionsForwardedAndRejectionSkipped ==
    eCall.made =>
        /\ eCall.status = "returned"
        /\ Len(eCall.forwarded) = eCall.tried
        /\ \A i \in DOMAIN eCall.forwarded : eCall.forwarded[i] = eCall.options
        /\ \A i \in 1..Len(strategies) :
              (RejectsOptionsAt(i) /\ i <= eCall.tried) =>
                  /\ eCall.accepted # i
                  /\ i < Len(strategies) => eCall.tried > i
                  /\ \A j \in (i + 1)..Len(strategies) :
                        ( /\ SucceedsWithOptionsAt(j)
                          /\ \A k \in 1..(j - 1) : ~SucceedsWithOptionsAt(k) )
                        => /\ eCall.coords = world[strategies[j]].pt
                           /\ eCall.accepted = j

\* a TemplateGrounding that would have found the target was skipped because
\* it does not declare exact_match; the OCRGrounding behind it answered
C37_Witness ==
    /\ eCall.made /\ eCall.options = { "exact_match" }
    /\ Len(strategies) >= 2 /\ strategies[1] = "s1" /\ strategies[2] = "s2"
    /\ SucceedsAt(strategies, 1, eCall.screenshot)
    /\ eCall.accepted = 2 /\ eCall.forwarded = << { "exact_match" }, { "exact_match" } >>

\* ------------------------------------------------------------------------
\* DesktopAutomationWorkflow.locate_notepad_icon (main.py), wrapped by
\* retry_on_exception(max_attempts=MAX_GROUNDING_ATTEMPTS, delay=GROUNDING_RETRY_DELAY)
\* ------------------------------------------------------------------------
\* config.MAX_GROUNDING_ATTEMPTS
MAX_GROUNDING_ATTEMPTS == 3

\* what screen_capture.capture_screen() does: a screenshot of the screen's
\* present size, or (None) an exception
Captures == ScreenSizes \cup { None }

\* what the registered strategies do while the icon is searched
IconOutcomes == { NoneOutcome, RaiseOutcome, PointOutcome(<<1, 0>>, Pct(90), TRUE) }

\* the registries _setup_grounding builds: the template strategy, the OCR
\* strategy, or both in that order
WorkflowRegistries == { << TemplateStrategy, FuzzyStrategy >>, << TemplateStrategy >>,
                        << FuzzyStrategy >> }

\* the call in progress:
\*   attempts : one entry per invocation of the wrapped function, in order:
\*                captured : the screenshot capture_screen returned (None: it raised)
\*                searched : the screenshot handed to grounding_system.locate
\*                           (None: locate was not called)
\*                coords   : what grounding_system.locate returned
\*                raised   : the invocation ended in an exception
\*   slept    : number of time.sleep calls of the wrapper
\*   result   : the (coords, screenshot) pair returned
IconStarted == [op |-> "locate_notepad_icon", phase |-> "running", attempts |-> << >>,
                slept |-> 0, result |-> None]

\* `if not coords` never taken
NotFound_never(coords) == FALSE

\* `if not coords`
NotFound(coords) == ~Truthy(coords)

\* one pass of the wrapper's loop: the wrapped function runs once; saved tells
\* whether save_debug_screenshot (enabled by config.SAVE_DEBUG_SCREENSHOTS)
\* returns or raises
LocateNotepadIconAttempt(capture, saved) ==
    LET attempt == Len(workflow.attempts) + 1
        screenshot == capture
        coords == IF capture = None THEN None ELSE eCall'.coords
        raises == \/ capture = None
                  \/ eCall'.status = "raised"
                  \/ NotFound(coords)
                  \/ ~saved
        entry == [captured |-> capture,
                  searched |-> IF capture = None THEN None ELSE eCall'.screenshot,
                  coords |-> coords, raised |-> raises]
    IN  /\ workflow.op = "locate_notepad_icon" /\ workflow.phase = "running"
        /\ attempt <= MAX_GROUNDING_ATTEMPTS
        /\ IF capture = None
           THEN UNCHANGED engineVars
           ELSE LocateCall(screenshot, {})
        /\ workflow' =
             IF ~raises
             THEN [workflow EXCEPT !.phase = "returned",
                                   !.attempts = Append(@, entry),
                                   !.result = << coords, screenshot >>]
             ELSE IF attempt < MAX_GROUNDING_ATTEMPTS
                  THEN [workflow EXCEPT !.attempts = Append(@, entry), !.slept = @ + 1]
                  ELSE [workflow EXCEPT !.phase = "raised", !.attempts = Append(@, entry)]
        /\ UNCHANGED << strategyVars, setup, retry, probe >>

\* process_posts calls locate_notepad_icon again for the next post
LocateNotepadIconCalled ==
    /\ workflow.op = "locate_notepad_icon" /\ workflow.phase # "running"
    /\ workflow' = IconStarted
    /\ eCall' = NoCall
    /\ UNCHANGED << strategies, last_successful_strategy, world >>
    /\ UNCHANGED << strategyVars, setup, retry, probe >>

IconInit ==
    /\ strategies \in WorkflowRegistries
    /\ last_successful_strategy = NoStrategy
    /\ world \in [StrategyIds -> {NoneOutcome}]
    /\ eCall = NoCall
    /\ StrategyIdle
    /\ setup = NoSetup /\ retry = NoRetry /\ probe = NoProbe
    /\ workflow = IconStarted

IconNext ==
    \/ \E capture \in Captures, saved \in BOOLEAN : LocateNotepadIconAttempt(capture, saved)
    \/ LocateNotepadIconCalled
    \/ \E i \in 1..Len(strategies), o \in IconOutcomes : WorldChanges(strategies[i], o)

SpecIcon == IconInit /\ [][IconNext]_vars

\* the point lies on the screenshot
OnScreenshot(coords, screenshot) ==
    /\ coords # None /\ screenshot # None
    /\ 0 <= coords[1] /\ coords[1] < screenshot[1]
    /\ 0 <= coords[2] /\ coords[2] < screenshot[2]

\* C32: each attempt of locate_notepad_icon captures a fresh screenshot
\* before the multi-strategy search and searches that screenshot; an attempt
\* whose search finds nothing raises and is retried, with at most
\* MAX_GROUNDING_ATTEMPTS attempts in total; the coordinates finally returned
\* are in bounds of the screenshot returned with them, which is the one
\* captured in the same attempt.
C32_FreshScreenshotEachAttempt ==
    workflow.op = "locate_notepad_icon" =>
        LET a == workflow.attempts
            n == Len(a)
        IN  /\ n <= MAX_GROUNDING_ATTEMPTS
            /\ \A i \in 1..n :
                  /\ a[i].searched = a[i].captured
                  /\ (a[i].searched # None /\ a[i].coords = None) => a[i].raised
                  /\ a[i].raised =>
                        \/ i < n
                        \/ i = n /\ workflow.phase = "running" /\ n < MAX_GROUNDING_ATTEMPTS
                        \/ i = n /\ workflow.phase = "raised" /\ n = MAX_GROUNDING_ATTEMPTS
                  /\ ~a[i].raised => i = n /\ workflow.phase = "returned"
            /\ workflow.phase = "returned" =>
                  /\ n >= 1 /\ ~a[n].raised
                  /\ workflow.result = << a[n].coords, a[n].captured >>
                  /\ OnScreenshot(workflow.result[1], workflow.result[2])
            /\ workflow.phase = "raised" => n = MAX_GROUNDING_ATTEMPTS

\* the icon was found on the third attempt, on a screenshot of another size
\* than the one the first attempt searched in vain
C32_Witness ==
    /\ workflow.op = "locate_notepad_icon" /\ workflow.phase = "returned"
    /\ Len(workflow.attempts) = MAX_GROUNDING_ATTEMPTS
    /\ workflow.attempts[1].searched = <<1, 1>> /\ workflow.attempts[1].coords = None
    /\ workflow.attempts[2].raised
    /\ workflow.result = << <<1, 0>>, <<3, 2>> >>

\* ------------------------------------------------------------------------
\* DesktopAutomationWorkflow.process_posts (main.py)
\* ------------------------------------------------------------------------
\* longest list of posts handed to process_posts
MaxPosts == 3

\* post['id'] of the posts (validate_posts keeps posts with id, title and body)
PostIds == { 1, 2 }

PostLists == UNION { [1..n -> PostIds] : n \in 0..MaxPosts }

\* the output file of a post before it is handled: "absent", "removable"
\* (exists, unlink succeeds) or "locked" (exists, unlink raises)
OutputFiles == { "absent", "removable", "locked" }

\* the call in progress:
\*   posts    : post['id'] of the posts given, in order
\*   handled  : what became of each post the loop has reached, in order:
\*              "successful", "failed" (write_post_to_file returned False),
\*              "exception" (caught by the loop's handler) or "raised" (an
\*              exception left process_posts)
\*   stats    : the stats dictionary
\*   cleanups : calls of cleanup_all_notepad_windows
ProcessPostsStarted(posts) ==
    [op |-> "process_posts", phase |-> IF posts = << >> THEN "returned" ELSE "running",
     posts |-> posts, handled |-> << >>,
     stats |-> [total |-> Len(posts), successful |-> 0, failed |-> 0,
                failed_posts |-> << >>],
     cleanups |-> 0]

\* one pass of the loop over the posts: file is the state of the post's output
\* file, located tells whether locate_notepad_icon returns (or raises after
\* its attempts), success is what write_post_to_file returns
ProcessPost(file, located, success) ==
    LET i == Len(workflow.handled) + 1
        post_id == workflow.posts[i]
        stats == workflow.stats
        phase == IF i = Len(workflow.posts) THEN "returned" ELSE "running"
    IN  /\ workflow.op = "process_posts" /\ workflow.phase = "running"
        /\ workflow' =
             IF file = "locked"
             THEN [workflow EXCEPT !.phase = "raised", !.handled = Append(@, "raised")]
             ELSE IF ~located
             THEN [workflow EXCEPT
                     !.phase = phase, !.handled = Append(@, "exception"),
                     !.stats = [stats EXCEPT !.failed = @ + 1,
                                             !.failed_posts = Append(@, post_id)],
                     !.cleanups = @ + 1]
             ELSE IF success
             THEN [workflow EXCEPT
                     !.phase = phase, !.handled = Append(@, "successful"),
                     !.stats = [stats EXCEPT !.successful = @ + 1]]
             ELSE [workflow EXCEPT
                     !.phase = phase, !.handled = Append(@, "failed"),
                     !.stats = [stats EXCEPT !.failed = @ + 1,
                                             !.failed_posts = Append(@, post_id)]]
        /\ UNCHANGED << engineVars, strategyVars, setup, retry, probe >>

PostsInit ==
    /\ EngineIdle /\ StrategyIdle
    /\ setup = NoSetup /\ retry = NoRetry /\ probe = NoProbe
    /\ \E posts \in PostLists : workflow = ProcessPostsStarted(posts)

PostsNext ==
    \E file \in OutputFiles, located \in BOOLEAN, success \in BOOLEAN :
        ProcessPost(file, located, success)

SpecPosts == PostsInit /\ [][PostsNext]_vars

\* the ids of the first n posts that were counted as failed, in order
RECURSIVE FailedIds(_, _, _)
FailedIds(posts, handled, n) ==
    IF n = 0
    THEN << >>
    ELSE IF handled[n] \in { "failed", "exception" }
         THEN Append(FailedIds(posts, handled, n - 1), posts[n])
         ELSE FailedIds(posts, handled, n - 1)

\* the statistics count each of the posts reached so far exactly once
CountedOnce ==
    LET n == Len(workflow.handled)
        counted == { i \in 1..n : workflow.handled[i] # "raised" }
    IN  /\ workflow.stats.total = Len(workflow.posts)
        /\ workflow.stats.successful + workflow.stats.failed = Cardinality(counted)
        /\ workflow.stats.successful =
              Cardinality({ i \in counted : workflow.handled[i] = "successful" })
        /\ workflow.stats.failed_posts =
              FailedIds(workflow.posts, workflow.handled, n)

\* C33: process_posts counts every post exactly once: when it returns,
\* successful + failed equals total (the number of posts given), failed_posts
\* holds exactly the ids of the posts counted as failed, in processing order,
\* and a failure or exception while handling one post never stops the
\* remaining posts from being processed.
C33_EveryPostCountedOnce ==
    workflow.op = "process_posts" =>
        /\ CountedOnce
        /\ workflow.phase # "raised"
        /\ workflow.phase # "running" =>
              /\ workflow.phase = "returned"
              /\ Len(workflow.handled) = Len(workflow.posts)
              /\ workflow.stats.successful + workflow.stats.failed = workflow.stats.total

\* what holds of process_posts whenever it returns
C33_CountsWhenReturned ==
    workflow.op = "process_posts" =>
        /\ CountedOnce
        /\ workflow.phase = "returned" =>
              /\ Len(workflow.handled) = Len(workflow.posts)
              /\ workflow.stats.successful + workflow.stats.failed = workflow.stats.total
        /\ workflow.phase = "raised" =>
              workflow.handled[Len(workflow.handled)] = "raised"

\* three posts: the first written, the second failed by an exception the loop
\* caught, the third failed by write_post_to_file returning False
C33_MixedRun ==
    /\ workflow.op = "process_posts" /\ workflow.phase = "returned"
    /\ workflow.handled = << "successful", "exception", "failed" >>
    /\ workflow.stats.failed_posts = << workflow.posts[2], workflow.posts[3] >>

\* ------------------------------------------------------------------------
\* NotepadController.write_post_to_file (automation/notepad_controller.py)
\* ------------------------------------------------------------------------
\* @retry_on_exception(max_attempts=3, delay=1) on launch_notepad
LAUNCH_MAX_ATTEMPTS == 3

\* filepath.name of the files written
FileNames == { "post_1.txt", "post_2.txt" }

\* icon coordinates handed in
IconCoords == { <<0, 0>>, <<1, 0>> }

\* how many windows one close_windows_by_title call can close
WindowCounts == 0..2

\* keyboard.save_file, keyboard.paste_text(path) and keyboard.press_key('enter'):
\* the first of the three that returns False, 0 if none does
SaveFailures == 0..3

\* the call in progress:
\*   phase    : "launching", "writing", "saving", "closing" (the step due next),
\*              "failed" (an exception is on its way to the handler),
\*              "returned" or "raised"
\*   launches : invocations of launch_notepad's body so far
\*   steps    : the steps carried out, in order, each with its outcome; the
\*              close step carries the file name whose window it closed
\*              ("<filename> - Notepad"), the cleanup the pattern "Notepad"
\*   result   : the value returned
WriteStarted(filename, coords) ==
    [op |-> "write_post_to_file", phase |-> "launching", filename |-> filename,
     coords |-> coords, launches |-> 0, steps |-> << >>, result |-> FALSE]

Step(name, ok, pattern) == [step |-> name, ok |-> ok, pattern |-> pattern]

\* one invocation of launch_notepad's body under its retry wrapper: clicked is
\* what mouse.double_click returns, appeared whether wait_for_window found
\* the window
LaunchAttempt(clicked, appeared) ==
    LET attempt == workflow.launches + 1
    IN  /\ workflow.op = "write_post_to_file" /\ workflow.phase = "launching"
        /\ workflow' =
             IF clicked /\ appeared
             THEN [workflow EXCEPT !.launches = attempt, !.phase = "writing",
                                   !.steps = Append(@, Step("launch", TRUE, ""))]
             ELSE IF attempt < LAUNCH_MAX_ATTEMPTS
                  THEN [workflow EXCEPT !.launches = attempt]
                  ELSE [workflow EXCEPT !.launches = attempt, !.phase = "failed",
                                        !.steps = Append(@, Step("launch", FALSE, ""))]
        /\ UNCHANGED << engineVars, strategyVars, setup, retry, probe >>

\* self.write_content(content): pasted is what keyboard.paste_text returns
WriteContent(pasted) ==
    /\ workflow.op = "write_post_to_file" /\ workflow.phase = "writing"
    /\ workflow' = [workflow EXCEPT !.phase = IF pasted THEN "saving" ELSE "failed",
                                    !.steps = Append(@, Step("write", pasted, ""))]
    /\ UNCHANGED << engineVars, strategyVars, setup, retry, probe >>

\* self.save_file(filepath)
SaveFile(failure) ==
    /\ workflow.op = "write_post_to_file" /\ workflow.phase = "saving"
    /\ workflow' = [workflow EXCEPT !.phase = IF failure = 0 THEN "closing" ELSE "failed",
                                    !.steps = Append(@, Step("save", failure = 0, ""))]
    /\ UNCHANGED << engineVars, strategyVars, setup, retry, probe >>

\* a close that closed no window treated like the failure of an earlier step
CloseNotepad_failsWorkflow(count) ==
    /\ workflow.op = "write_post_to_file" /\ workflow.phase = "closing"
    /\ workflow' =
         [workflow EXCEPT !.phase = IF count > 0 THEN "returned" ELSE "failed",
                          !.steps = Append(@, Step("close", count > 0, workflow.filename)),
                          !.result = count > 0]
    /\ UNCHANGED << engineVars, strategyVars, setup, retry, probe >>

\* self.close_notepad(filename), then `return True`: count is the number of
\* windows close_windows_by_title closed
CloseNotepad(count) ==
    /\ workflow.op = "write_post_to_file" /\ workflow.phase = "closing"
    /\ workflow' =
         [workflow EXCEPT !.phase = "returned",
                          !.steps = Append(@, Step("close", count > 0, workflow.filename)),
                          !.result = TRUE]
    /\ UNCHANGED << engineVars, strategyVars, setup, retry, probe >>

\* the handler of write_post_to_file: close_windows_by_title("Notepad"), then
\* `return False`
WorkflowFailed(count) ==
    /\ workflow.op = "write_post_to_file" /\ workflow.phase = "failed"
    /\ workflow' = [workflow EXCEPT !.phase = "returned",
                                    !.steps = Append(@, Step("cleanup", count > 0, "Notepad")),
                                    !.result = FALSE]
    /\ UNCHANGED << engineVars, strategyVars, setup, retry, probe >>

WriteInit ==
    /\ EngineIdle /\ StrategyIdle
    /\ setup = NoSetup /\ retry = NoRetry /\ probe = NoProbe
    /\ \E filename \in FileNames, coords \in IconCoords :
          workflow = WriteStarted(filename, coords)

WriteNext ==
    \/ \E clicked \in BOOLEAN, appeared \in BOOLEAN : LaunchAttempt(clicked, appeared)
    \/ \E pasted \in BOOLEAN : WriteContent(pasted)
    \/ \E failure \in SaveFailures : SaveFile(failure)
    \/ \E count \in WindowCounts : CloseNotepad(count)
    \/ \E count \in WindowCounts : WorkflowFailed(count)

SpecWrite == WriteInit /\ [][WriteNext]_vars

\* the order of the steps of the workflow
StepOrder == << "launch", "write", "save", "close" >>

\* step number k was carried out and succeeded
Succeeded(k) ==
    /\ k <= Len(workflow.steps)
    /\ workflow.steps[k].step = StepOrder[k] /\ workflow.steps[k].ok

C34_CleanupAfterFailedSave ==
    /\ workflow.op = "write_post_to_file" /\ workflow.phase = "returned"
    /\ Len(workflow.steps) = 4 /\ workflow.steps[3].step = "save" /\ ~workflow.steps[3].ok
    /\ workflow.steps[4].step = "cleanup" /\ ~workflow.result

====
